---------------------------- MODULE Spec2Model ----------------------------
(***************************************************************************)
(* Daily-report extraction service: the pattern extractor, the LLM         *)
(* fallback extractor, the conflict detector and the single-flight SQS     *)
(* consumer (ExtractionService) that drives them and writes the report     *)
(* status.                                                                 *)
(***************************************************************************)
EXTENDS Integers, Sequences, FiniteSets, TLC

(***************************************************************************)
(* JavaScript values.  Every value is a record with a kind, so that any    *)
(* two values can be compared.                                             *)
(***************************************************************************)
Null == [kind |-> "null"]
Undefined == [kind |-> "undefined"]

\* A JS string that holds document text, kept as the sequence of its lines
\* (the lines are joined by "\n").  Str(<<>>) is the empty string.
Str(lines) == [kind |-> "string", lines |-> lines]

\* JS truthiness of the values the pipeline tests with !x, x || y and x && y.
Truthy(v) ==
  /\ v.kind \notin {"null", "undefined"}
  /\ (v.kind = "string" => v.lines # <<>>)

\* ExtractionConfidence
HIGH == "high"
MEDIUM == "medium"
LOW == "low"
ExtractionConfidence == {HIGH, MEDIUM, LOW}

\* ReportStatus
PENDING == "pending"
PROCESSING == "processing"
COMPLETED == "completed"
FAILED == "failed"
ReportStatus == {PENDING, PROCESSING, COMPLETED, FAILED}

SectionNames == <<"weather", "manpower", "workAreas", "notes">>
SectionNameSet == {SectionNames[i] : i \in 1..Len(SectionNames)}

Min(S) == CHOOSE x \in S : \A y \in S : x <= y
Max(S) == CHOOSE x \in S : \A y \in S : x >= y

(***************************************************************************)
(* Document text.  A PDF text is a sequence of lines drawn from a fixed    *)
(* vocabulary; each regular expression of the extractor is modelled by     *)
(* what it matches on these lines.                                         *)
(***************************************************************************)
MaxLines == 3

Vocabulary ==
  { "Weather:", "Manpower:", "Work Areas:", "Notes:",
    "High: 75F / Low: 55F", "65-75F", "Conditions: Partly Cloudy",
    "Nice day today",
    "ABC Corp: 5 workers", "XYZ Inc: 3 workers", "Total: 8 workers",
    "Total: 8", "Building A: In Progress" }

\* Number of characters of a line (String.length).
CharCount(line) ==
  CASE line = "Weather:" -> 8
    [] line = "Manpower:" -> 9
    [] line = "Work Areas:" -> 11
    [] line = "Notes:" -> 6
    [] line = "High: 75F / Low: 55F" -> 20
    [] line = "65-75F" -> 6
    [] line = "Conditions: Partly Cloudy" -> 25
    [] line = "Nice day today" -> 14
    [] line = "ABC Corp: 5 workers" -> 19
    [] line = "XYZ Inc: 3 workers" -> 18
    [] line = "Total: 8 workers" -> 16
    [] line = "Total: 8" -> 8
    [] line = "Building A: In Progress" -> 23

\* Length of lines joined by "\n".
RECURSIVE JoinedLength(_)
JoinedLength(lines) ==
  IF lines = <<>> THEN 0
  ELSE CharCount(Head(lines))
       + (IF Len(lines) > 1 THEN 1 ELSE 0)
       + JoinedLength(Tail(lines))

\* sectionPatterns[name] matched at a line: the header patterns are anchored
\* at a line start and end at ":" or a newline.
sectionPatterns(name, line) ==
  CASE name = "weather" -> line = "Weather:"
    [] name = "manpower" -> line = "Manpower:"
    [] name = "workAreas" -> line = "Work Areas:"
    [] name = "notes" -> line = "Notes:"

IsHeader(line) == \E n \in SectionNameSet : sectionPatterns(n, line)

\* extractSectionText: the text from the first header of the section to the
\* nearest following header of any section (or the end), trimmed; null when
\* the section has no header.
extractSectionText(pdfText, sectionName) ==
  LET hs == {i \in 1..Len(pdfText) : sectionPatterns(sectionName, pdfText[i])}
  IN IF hs = {} THEN Null
     ELSE LET start == Min(hs)
              nexts == {j \in (start + 1)..Len(pdfText) : IsHeader(pdfText[j])}
              end == IF nexts = {} THEN Len(pdfText) + 1 ELSE Min(nexts)
          IN Str(SubSeq(pdfText, start + 1, end - 1))

\* A pattern is given by the set of vocabulary lines it matches on.
\* String.match without the g flag returns the first match in the text.
HasMatch(lines, matching) == \E i \in 1..Len(lines) : lines[i] \in matching
FirstMatch(lines, matching) ==
  lines[Min({i \in 1..Len(lines) : lines[i] \in matching})]

\* Variant of the result for an absent section: it asks for the fallback.
SectionAbsentAmbiguous ==
  [data |-> Null, confidence |-> LOW, needsLlmFallback |-> TRUE,
   rawText |-> Undefined]

\* The result of a section whose header is absent (or whose text is empty).
SectionAbsent ==
  [data |-> Null, confidence |-> LOW, needsLlmFallback |-> FALSE,
   rawText |-> Undefined]

\* Variant of the catch block: it reports MEDIUM confidence.
SectionFailedMedium(sectionText) ==
  [data |-> Null, confidence |-> MEDIUM, needsLlmFallback |-> TRUE,
   rawText |-> sectionText]

\* The result of the catch block of a section extractor.
SectionFailed(sectionText) ==
  [data |-> Null, confidence |-> LOW, needsLlmFallback |-> TRUE,
   rawText |-> sectionText]

\* A JS number, or undefined where the code leaves a variable unassigned.
Num(n) == [kind |-> "number", value |-> n]

\* x || 0 for a number or undefined x.
OrZero(v) == IF v.kind = "number" THEN v.value ELSE 0

(***************************************************************************)
(* Weather                                                                 *)
(***************************************************************************)
\* /(?:high|max)[:\s]*(\d+)\s*\u00B0?[fFcC]?/i and its group 1
tempHighMatch == {"High: 75F / Low: 55F"}
tempHighGroup(line) == CASE line = "High: 75F / Low: 55F" -> 75

\* /(?:low|min)[:\s]*(\d+)\s*\u00B0?[fFcC]?/i and its group 1
tempLowMatch == {"High: 75F / Low: 55F"}
tempLowGroup(line) == CASE line = "High: 75F / Low: 55F" -> 55

\* /(\d+)\s*\u00B0?\s*[-\/]\s*(\d+)\s*\u00B0?[fFcC]?/ and its groups 1 and 2
tempRangeMatch == {"65-75F"}
tempRangeGroups(line) == CASE line = "65-75F" -> <<65, 75>>

\* Variant of the conditions pattern that knows "sky" only: it matches on
\* no line of the vocabulary.
conditionsMatchSkyOnly == {}

\* /(?:sky|conditions?|weather)[:\s]*([A-Za-z\s]+?)(?:\n|,|;|$)/i and its
\* group 1, trimmed
conditionsMatch == {"Conditions: Partly Cloudy"}
conditionsGroup(line) == CASE line = "Conditions: Partly Cloudy" -> "Partly Cloudy"

\* The data field `notes` of weather and manpower (extractRemainingNotes) is
\* free text that nothing downstream reads; it is not part of the records here.
extractWeather(pdfText, fault) ==
  LET sectionText == extractSectionText(pdfText, "weather") IN
  IF ~Truthy(sectionText) THEN SectionAbsent
  ELSE IF fault THEN SectionFailed(sectionText)
  ELSE
    LET body == sectionText.lines
        range == tempRangeGroups(FirstMatch(body, tempRangeMatch))
        temperatureHigh ==
          IF HasMatch(body, tempHighMatch)
          THEN Num(tempHighGroup(FirstMatch(body, tempHighMatch)))
          ELSE IF HasMatch(body, tempRangeMatch)
          THEN Num(Max({range[1], range[2]}))
          ELSE Undefined
        temperatureLow ==
          IF HasMatch(body, tempLowMatch)
          THEN Num(tempLowGroup(FirstMatch(body, tempLowMatch)))
          ELSE IF HasMatch(body, tempRangeMatch)
          THEN Num(Min({range[1], range[2]}))
          ELSE Undefined
        conditions ==
          IF HasMatch(body, conditionsMatch)
          THEN conditionsGroup(FirstMatch(body, conditionsMatch))
          ELSE ""
        hasTemperature ==
          temperatureHigh # Undefined \/ temperatureLow # Undefined
        hasConditions == HasMatch(body, conditionsMatch) /\ conditions # ""
        confidence ==
          IF hasTemperature /\ hasConditions THEN HIGH
          ELSE IF hasTemperature \/ hasConditions THEN MEDIUM
          ELSE LOW
        needsLlmFallback == ~(hasTemperature \/ hasConditions)
    IN [data |-> [kind |-> "weather",
                  conditions |-> conditions,
                  temperatureHigh |-> OrZero(temperatureHigh),
                  temperatureLow |-> OrZero(temperatureLow)],
        confidence |-> confidence,
        needsLlmFallback |-> needsLlmFallback,
        rawText |-> sectionText]

(***************************************************************************)
(* Manpower                                                                *)
(***************************************************************************)
\* crewPatterns[0]: /([A-Za-z\s&]+?)[\s:\-]+(\d+)\s*(?:workers?|men|people|crew)/gi
\* matches on these lines, up to the end of the line.
crewLines == {"ABC Corp: 5 workers", "XYZ Inc: 3 workers", "Total: 8 workers"}

\* Its group 1 within the line, and its group 2 (the digits).
crewName(line) ==
  CASE line = "ABC Corp: 5 workers" -> "ABC Corp"
    [] line = "XYZ Inc: 3 workers" -> "XYZ Inc"
    [] line = "Total: 8 workers" -> "Total"
crewDigits(line) ==
  CASE line = "ABC Corp: 5 workers" -> "5"
    [] line = "XYZ Inc: 3 workers" -> "3"
    [] line = "Total: 8 workers" -> "8"
parseInt(digits) ==
  CASE digits = "5" -> 5 [] digits = "3" -> 3 [] digits = "8" -> 8

\* Group 1 is a lazy run of [A-Za-z\s&], and \s spans line breaks: the run
\* starts after the last character before the match that is outside that
\* class, so text of the lines before a crew line is captured with its name.
\* LetterRun(line): the part of a non-matching line that such a run can hold:
\* the whole line when it has only characters of the class, else what follows
\* its last other character (no fragment when nothing does).
OnlyLetters == {"Nice day today"}
LetterTail(line) ==
  CASE line = "High: 75F / Low: 55F" -> <<"F">>
    [] line = "65-75F" -> <<"F">>
    [] line = "Conditions: Partly Cloudy" -> <<"Partly Cloudy">>
    [] line = "Total: 8" -> <<>>
    [] line = "Building A: In Progress" -> <<"In Progress">>

\* The exec loop of crewPatterns[0] over the section text.  A name is kept
\* as the sequence of its lines.
RECURSIVE crewScan(_, _, _)
crewScan(lines, carry, crews) ==
  IF lines = <<>> THEN crews
  ELSE LET line == Head(lines) IN
    IF line \in crewLines
    THEN crewScan(Tail(lines), <<>>,
                  Append(crews,
                         [subcontractor |-> carry \o <<crewName(line)>>,
                          trade |-> crewDigits(line),
                          count |-> parseInt(crewDigits(line))]))
    ELSE crewScan(Tail(lines),
                  IF line \in OnlyLetters THEN Append(carry, line)
                  ELSE LetterTail(line),
                  crews)

\* /(?:total)[:\s]*(\d+)\s*(?:workers?|men|people)?/i and its group 1
totalMatch == {"Total: 8 workers", "Total: 8"}
totalGroup(line) ==
  CASE line = "Total: 8 workers" -> 8 [] line = "Total: 8" -> 8

\* Variant of the reduce over the crews that counts the crews.
CountCrews(crews) == Len(crews)

RECURSIVE SumCounts(_)
SumCounts(crews) ==
  IF crews = <<>> THEN 0 ELSE Head(crews).count + SumCounts(Tail(crews))

extractManpower(pdfText, fault) ==
  LET sectionText == extractSectionText(pdfText, "manpower") IN
  IF ~Truthy(sectionText) THEN SectionAbsent
  ELSE IF fault THEN SectionFailed(sectionText)
  ELSE
    LET body == sectionText.lines
        \* crewPatterns[1], the "|"-separated table row, matches on no line of
        \* the vocabulary and adds no entry.
        crews == crewScan(body, <<>>, <<>>)
        explicitTotal ==
          IF HasMatch(body, totalMatch)
          THEN totalGroup(FirstMatch(body, totalMatch))
          ELSE 0
        totalWorkers ==
          IF explicitTotal = 0 /\ Len(crews) > 0
          THEN SumCounts(crews) ELSE explicitTotal
        confidence ==
          IF Len(crews) > 0 \/ totalWorkers > 0
          THEN (IF Len(crews) > 0 THEN HIGH ELSE MEDIUM)
          ELSE LOW
        needsLlmFallback == ~(Len(crews) > 0 \/ totalWorkers > 0)
    IN [data |-> [kind |-> "manpower",
                  totalWorkers |-> totalWorkers,
                  crews |-> crews],
        confidence |-> confidence,
        needsLlmFallback |-> needsLlmFallback,
        rawText |-> sectionText]

(***************************************************************************)
(* Work areas                                                              *)
(***************************************************************************)
\* areaPatterns[0]: /([A-Za-z0-9\s]+?)[\s:\-]+\s*((?:in\s*progress|complete[d]?|
\* pending|started|delayed|on\s*hold)[^\n]*)/gi matches on these lines, up
\* to the end of the line.
areaLines == {"Building A: In Progress"}
areaName(line) == CASE line = "Building A: In Progress" -> "Building A"
areaStatus(line) == CASE line = "Building A: In Progress" -> "In Progress"

\* Group 1 is a lazy run of [A-Za-z0-9\s]; as for the crew names, text of
\* the lines before an area line is captured with its name.
OnlyAlnum == {"Nice day today"}
AlnumTail(line) ==
  CASE line = "High: 75F / Low: 55F" -> <<"55F">>
    [] line = "65-75F" -> <<"75F">>
    [] line = "Conditions: Partly Cloudy" -> <<"Partly Cloudy">>
    [] line = "ABC Corp: 5 workers" -> <<"5 workers">>
    [] line = "XYZ Inc: 3 workers" -> <<"3 workers">>
    [] line = "Total: 8 workers" -> <<"8 workers">>
    [] line = "Total: 8" -> <<"8">>

\* The exec loop of areaPatterns[0]: an entry is pushed unless an entry of
\* the same name is there already.
RECURSIVE areaScan(_, _, _)
areaScan(lines, carry, workAreas) ==
  IF lines = <<>> THEN workAreas
  ELSE LET line == Head(lines) IN
    IF line \in areaLines
    THEN LET name == carry \o <<areaName(line)>>
             seen == \E i \in 1..Len(workAreas) : workAreas[i].name = name
         IN areaScan(Tail(lines), <<>>,
                     IF seen THEN workAreas
                     ELSE Append(workAreas,
                                 [name |-> name,
                                  status |-> areaStatus(line),
                                  notes |-> ""]))
    ELSE areaScan(Tail(lines),
                  IF line \in OnlyAlnum THEN Append(carry, line)
                  ELSE AlnumTail(line),
                  workAreas)

extractWorkAreas(pdfText, fault) ==
  LET sectionText == extractSectionText(pdfText, "workAreas") IN
  IF ~Truthy(sectionText) THEN SectionAbsent
  ELSE IF fault THEN SectionFailed(sectionText)
  ELSE
    \* areaPatterns[1], the "|"-separated table row, matches on no line of
    \* the vocabulary and adds no entry.
    LET workAreas == areaScan(sectionText.lines, <<>>, <<>>)
    IN [data |-> IF Len(workAreas) > 0
                 THEN [kind |-> "workAreas", areas |-> workAreas]
                 ELSE Null,
        confidence |-> IF Len(workAreas) > 0 THEN HIGH ELSE LOW,
        needsLlmFallback |-> ~(Len(workAreas) > 0),
        rawText |-> sectionText]

(***************************************************************************)
(* Notes                                                                   *)
(***************************************************************************)
NotesHighLength == 10

extractNotes(pdfText) ==
  LET sectionText == extractSectionText(pdfText, "notes") IN
  IF ~Truthy(sectionText) THEN SectionAbsent
  ELSE
    LET notes == sectionText
        length == JoinedLength(notes.lines)
    IN [data |-> IF length > 0 THEN notes ELSE Null,
        confidence |-> IF length > NotesHighLength THEN HIGH ELSE MEDIUM,
        needsLlmFallback |-> FALSE,
        rawText |-> sectionText]

\* Variant of extract with one try block around the four sections: an
\* exception in one of them degrades them all.
extractAllOrNothing(pdfText, faults) ==
  [weather |-> extractWeather(pdfText, faults # {}),
   manpower |-> extractManpower(pdfText, faults # {}),
   workAreas |-> extractWorkAreas(pdfText, faults # {}),
   notes |-> extractNotes(pdfText)]

\* StructuredExtractorService.extract.  faults: the sections whose parsing
\* raises an exception inside the try block of their extractor.
extract(pdfText, faults) ==
  [weather |-> extractWeather(pdfText, "weather" \in faults),
   manpower |-> extractManpower(pdfText, "manpower" \in faults),
   workAreas |-> extractWorkAreas(pdfText, "workAreas" \in faults),
   notes |-> extractNotes(pdfText)]

(***************************************************************************)
(* LlmExtractorService                                                     *)
(***************************************************************************)
\* What a chat-completion call can come back with.  kind:
\*   "error"    the call rejects (transport error)
\*   "empty"    no message content
\*   "notJson"  content that JSON.parse rejects
\*   "jsonNull" content that parses to null (reading a property of it throws)
\*   "noField"  a JSON object without the expected field
\*   "null"     a JSON object whose expected field is null
\*   "value"    a JSON object whose expected field holds `value`
Reply(kind, value) == [kind |-> kind, value |-> value]
FailedReplies ==
  {Reply(k, Null) : k \in {"error", "empty", "notJson", "jsonNull"}}

\* Section data as the model may return it.
LlmWeather == [kind |-> "weather", conditions |-> "Sunny",
               temperatureHigh |-> 70, temperatureLow |-> 50]
LlmCrew(n) == [subcontractor |-> <<"Llm Co">>, trade |-> "General", count |-> n]
LlmManpower(total, crews) ==
  [kind |-> "manpower", totalWorkers |-> total, crews |-> crews]
LlmWorkAreas ==
  [kind |-> "workAreas",
   areas |-> <<[name |-> <<"Site">>, status |-> "started", notes |-> ""]>>]
LlmData(sectionName) ==
  CASE sectionName = "weather" -> {LlmWeather}
    [] sectionName = "manpower" ->
         {LlmManpower(8, <<LlmCrew(5), LlmCrew(3)>>),
          LlmManpower(10, <<LlmCrew(5)>>)}
    [] sectionName = "workAreas" -> {LlmWorkAreas}
    [] sectionName = "notes" -> {Str(<<"Nice day today">>)}

ExtractionReplies(sectionName) ==
  FailedReplies
    \cup {Reply("noField", Undefined), Reply("null", Null)}
    \cup {Reply("value", d) : d \in LlmData(sectionName)}

\* Variant of extractSection whose failure asks for the fallback again.
extractSectionRetry(sectionName, rawText, reply) ==
  IF reply \in FailedReplies
  THEN [data |-> Null, confidence |-> LOW, needsLlmFallback |-> TRUE,
        rawText |-> rawText]
  ELSE [data |-> reply.value, confidence |-> MEDIUM,
        needsLlmFallback |-> FALSE, rawText |-> rawText]

\* Variant of extractSection that trusts the model as much as a pattern.
extractSectionHigh(sectionName, rawText, reply) ==
  IF reply \in FailedReplies
  THEN [data |-> Null, confidence |-> LOW, needsLlmFallback |-> FALSE,
        rawText |-> rawText]
  ELSE [data |-> reply.value, confidence |-> HIGH,
        needsLlmFallback |-> FALSE, rawText |-> rawText]

\* LlmExtractorService.extractSection
extractSection(sectionName, rawText, reply) ==
  IF reply \in FailedReplies
  THEN [data |-> Null, confidence |-> LOW, needsLlmFallback |-> FALSE,
        rawText |-> rawText]
  ELSE [data |-> reply.value, confidence |-> MEDIUM,
        needsLlmFallback |-> FALSE, rawText |-> rawText]

\* ValidationWarning
Warning(type, sections, severity) ==
  [type |-> type, sections |-> sections, severity |-> severity]

\* LlmExtractorService.checkProgrammaticConflicts
checkProgrammaticConflicts(extractedData) ==
  IF Truthy(extractedData.manpower)
  THEN LET totalWorkers == extractedData.manpower.totalWorkers
           crewSum == SumCounts(extractedData.manpower.crews)
       IN IF totalWorkers > 0 /\ crewSum > 0 /\ totalWorkers # crewSum
          THEN <<Warning("manpower_total_mismatch", <<"manpower">>, "warning")>>
          ELSE <<>>
  ELSE <<>>

\* Variant of the guard that also wants the work areas to be absent.
SkipSemanticNothingAtAll(extractedData) ==
  /\ ~Truthy(extractedData.weather)
  /\ ~Truthy(extractedData.manpower)
  /\ ~Truthy(extractedData.workAreas)
  /\ ~Truthy(extractedData.notes)

\* The guard of detectSemanticConflicts: no model call for minimal data.
SkipSemantic(extractedData) ==
  /\ ~Truthy(extractedData.weather)
  /\ ~Truthy(extractedData.manpower)
  /\ ~Truthy(extractedData.notes)

LlmConflict == Warning("weather_inconsistency", <<"weather", "notes">>, "warning")
ConflictReplies ==
  FailedReplies
    \cup {Reply("noField", Undefined), Reply("null", Null)}
    \cup {Reply("value", <<>>), Reply("value", <<LlmConflict>>)}

\* LlmExtractorService.detectSemanticConflicts, once the model call is back.
detectSemanticConflicts(reply) ==
  IF reply.kind = "value" THEN reply.value ELSE <<>>

\* Variant of detectConflicts in which the outcome of the model call
\* replaces the programmatic warnings.
detectConflictsSemanticOnly(extractedData, reply) ==
  IF SkipSemantic(extractedData)
  THEN checkProgrammaticConflicts(extractedData)
  ELSE detectSemanticConflicts(reply)

\* LlmExtractorService.detectConflicts; reply is unused when the model call
\* is skipped.
detectConflicts(extractedData, reply) ==
  checkProgrammaticConflicts(extractedData)
    \o (IF SkipSemantic(extractedData) THEN <<>>
        ELSE detectSemanticConflicts(reply))

(***************************************************************************)
(* ExtractionService: the pipeline's synchronous parts                     *)
(***************************************************************************)
\* x || undefined
OrUndefined(v) == IF Truthy(v) THEN v ELSE Undefined

Count(seq, P) == Cardinality({i \in 1..Len(seq) : seq[i] = P})

\* Variant of calculateOverallConfidence for which one LOW section is enough.
calculateOverallConfidenceAnyLow(structuredResult) ==
  LET confidences == <<structuredResult.weather.confidence,
                       structuredResult.manpower.confidence,
                       structuredResult.workAreas.confidence,
                       structuredResult.notes.confidence>>
  IN IF Count(confidences, LOW) >= 1 THEN LOW
     ELSE IF Count(confidences, HIGH) >= 3 THEN HIGH
     ELSE MEDIUM

\* Variant of calculateOverallConfidence that wants exactly three HIGH
\* sections.
calculateOverallConfidenceExactlyThree(structuredResult) ==
  LET confidences == <<structuredResult.weather.confidence,
                       structuredResult.manpower.confidence,
                       structuredResult.workAreas.confidence,
                       structuredResult.notes.confidence>>
      lowCount == Count(confidences, LOW)
      highCount == Count(confidences, HIGH)
  IN IF lowCount >= 2 THEN LOW
     ELSE IF highCount = 3 THEN HIGH
     ELSE MEDIUM

\* ExtractionService.calculateOverallConfidence
calculateOverallConfidence(structuredResult) ==
  LET confidences == <<structuredResult.weather.confidence,
                       structuredResult.manpower.confidence,
                       structuredResult.workAreas.confidence,
                       structuredResult.notes.confidence>>
      lowCount == Count(confidences, LOW)
      highCount == Count(confidences, HIGH)
  IN IF lowCount >= 2 THEN LOW
     ELSE IF highCount >= 3 THEN HIGH
     ELSE MEDIUM

(***************************************************************************)
(* The world of the consumer: reports in MongoDB, PDFs in S3, messages on  *)
(* the SQS queue.                                                          *)
(***************************************************************************)
Reports == {"r1", "r2"}
Keys == {"k1"}
NoField == "undefined"

\* The messages that can be on the queue.  body: "json" (parses), "notJson"
\* (JSON.parse throws), "none" (no Body or no ReceiptHandle).  A JSON body
\* may lack reportId or s3Key: the destructuring then yields undefined.
Msg(id, body, reportId, s3Key) ==
  [id |-> id, body |-> body, reportId |-> reportId, s3Key |-> s3Key]
Messages ==
  { Msg("m1", "json", "r1", "k1"),
    Msg("m2", "none", NoField, NoField),
    Msg("m3", "notJson", NoField, NoField),
    Msg("m4", "json", NoField, "k1"),
    Msg("m5", "json", "r1", NoField) }
MsgIds == {m.id : m \in Messages}
Message(id) == CHOOSE m \in Messages : m.id = id

\* The documents a key can hold.
DocClean ==
  << "Weather:", "High: 75F / Low: 55F", "Conditions: Partly Cloudy",
     "Manpower:", "ABC Corp: 5 workers", "XYZ Inc: 3 workers",
     "Work Areas:", "Building A: In Progress",
     "Notes:", "Nice day today" >>
DocProse == << "Manpower:", "Nice day today" >>
DocAreas == << "Work Areas:", "Nice day today" >>
PdfTexts == {DocClean, DocProse, DocAreas}

\* Bounds of the model.
MaxQueued == 2
MaxTicks == 2
NSlots == 2

\* Variant of the ReceiveMessageCommand: a batch of two.
TwoMessages == 1 + 1

\* MaxNumberOfMessages of the ReceiveMessageCommand
MaxNumberOfMessages == 1

Slots == 1..NSlots

VARIABLES
  isProcessing,      \* ExtractionService.isProcessing
  cycles,            \* the pollQueue invocations in flight, by slot
  ticks,             \* timer ticks so far (calls of pollQueue)
  polls,             \* calls of pollQueue that passed the guard
  msgState,          \* per message: "none", "visible", "inflight", "deleted"
  status,            \* per report: the persisted status
  stored,            \* per report: the persisted extractedData
  lastPoll,          \* how the last pollQueue ended: "returned", "caught"
  pdfText,           \* extractor harness: the text
  faults,            \* extractor harness: the sections whose parsing raises
  structuredResult,  \* extractor harness: the result of extract
  llmResult,         \* extractor harness: the result of extractSection
  calls,             \* call harness: the calls made, with what they returned
  ingestion          \* IngestionService: the upload requests and their effects

consumerVars == <<isProcessing, cycles, ticks, polls, lastPoll>>
worldVars == <<msgState, status, stored>>
harnessVars == <<pdfText, faults, structuredResult, llmResult, calls, ingestion>>
vars == <<isProcessing, cycles, ticks, polls, lastPoll, msgState, status,
          stored, pdfText, faults, structuredResult, llmResult, calls,
          ingestion>>

\* Bound: the upload requests.
MaxUploads == 3
Requests == 1..MaxUploads

\* No upload request was made: the bucket holds no object, the collection
\* no document and the queue no message of a request.
NoUploads ==
  [pc |-> [q \in Requests |-> "idle"], objects |-> {}, documents |-> {},
   published |-> {}]

\* ExtractedData = {} 
EmptyData ==
  [weather |-> Undefined, manpower |-> Undefined, workAreas |-> Undefined,
   notes |-> Undefined]

\* A pollQueue invocation: where it is suspended (pc), what is left of
\* response.Messages (the head is the message being processed), the locals
\* of runExtractionPipeline, and log, the operations it has issued.
IdleCycle ==
  [pc |-> "idle", messages |-> <<>>, log |-> <<>>,
   structuredResult |-> Undefined, extractedData |-> EmptyData,
   llmFallbackSections |-> <<>>, section |-> 0, result |-> Undefined]

Active(s) == cycles[s].pc # "idle"
Issue(c, pc, op) == [c EXCEPT !.pc = pc, !.log = Append(@, op)]
Current(c) == Message(Head(c.messages))

(***************************************************************************)
(* ExtractionService.pollQueue and processMessage.  Each action runs the   *)
(* code from one await to the next: JavaScript runs to completion between  *)
(* suspension points, and a timer tick can only arrive at one.             *)
(***************************************************************************)
\* Variant of pollQueue without its guard.
NeverProcessing == FALSE

\* Variant of pollQueue whose early return sits inside the try block, so
\* that the finally block runs.
DropTickReleasing ==
  /\ isProcessing' = FALSE
  /\ UNCHANGED cycles

\* Variant of pollQueue without the finally block: the flag is released on
\* the normal path only.
EndCycleNoFinally(s, threw) ==
  /\ isProcessing' = IF threw THEN isProcessing ELSE FALSE
  /\ cycles' = [cycles EXCEPT ![s] = IdleCycle]
  /\ lastPoll' = IF threw THEN "caught" ELSE "returned"

\* The guard of pollQueue: if (this.isProcessing) return;
AlreadyProcessing == isProcessing

\* The early return of pollQueue, taken before the try block.
DropTick == UNCHANGED <<isProcessing, cycles>>

\* Variant of the end of pollQueue for a consumer that remembers the ticks
\* it dropped: it polls again at once when one came in the meantime.
EndCycleServingDroppedTick(s, threw) ==
  /\ isProcessing' = (ticks > polls)
  /\ cycles' = [cycles EXCEPT ![s] =
                  IF ticks > polls THEN Issue(IdleCycle, "receive", "receive")
                  ELSE IdleCycle]
  /\ lastPoll' = IF threw THEN "caught" ELSE "returned"

\* finally { this.isProcessing = false }, and the invocation is over.
\* threw: pollQueue got there through its catch block, which logs the error.
EndCycle(s, threw) ==
  /\ isProcessing' = FALSE
  /\ cycles' = [cycles EXCEPT ![s] = IdleCycle]
  /\ lastPoll' = IF threw THEN "caught" ELSE "returned"

\* Variant of the catch block of processMessage that runs the pipeline
\* once more instead of giving the job up.
CatchRetrying(c) ==
  Issue([IdleCycle EXCEPT !.messages = c.messages, !.log = c.log],
        "extractText", "extractText")

\* The catch block of processMessage: the locals of the pipeline are gone,
\* updateReportStatus(reportId, FAILED) is issued.
Catch(c) ==
  Issue([IdleCycle EXCEPT !.messages = c.messages, !.log = c.log],
        "updateFailed", "updateStatus:failed")

\* The for-of loop of pollQueue over what is left of response.Messages, up
\* to its first await: processMessage returns at once for a message without
\* body or receipt handle and for a body that does not parse; otherwise it
\* issues updateReportStatus(reportId, PROCESSING).  pc = "return": the loop
\* is over.
RECURSIVE Loop(_, _)
Loop(c, msgs) ==
  IF msgs = <<>> THEN [c EXCEPT !.pc = "return", !.messages = <<>>]
  ELSE LET called == [c EXCEPT !.log = Append(@, "processMessage")]
       IN IF Message(Head(msgs)).body \in {"none", "notJson"}
          THEN Loop(called, Tail(msgs))
          ELSE Issue([called EXCEPT !.messages = msgs],
                     "updateProcessing", "updateStatus:processing")

\* processMessage returned normally: on to the next message.
NextMessage(c) ==
  Loop([IdleCycle EXCEPT !.log = c.log], Tail(c.messages))

\* The invocation goes on as c, or is over when c left the loop.
Resume(s, c) ==
  IF c.pc = "return" THEN EndCycle(s, FALSE)
  ELSE /\ cycles' = [cycles EXCEPT ![s] = c]
       /\ UNCHANGED <<isProcessing, lastPoll>>

\* The document a findByIdAndUpdate(reportId, ...) updates.  With an id
\* that is undefined the filter is {_id: undefined}, which the driver sends
\* as a filter on null (no document) or without the key (any document),
\* depending on how it serialises undefined.
Targets(reportId) ==
  IF reportId \in Reports THEN {reportId} ELSE Reports \cup {NoField}

\* Variants of the catch block of processMessage: the job is left in
\* PROCESSING, or is put back to PENDING.
FailureStatusProcessing == PROCESSING
FailureStatusPending == PENDING

\* The status the catch block of processMessage writes.
FailureStatus == FAILED

\* Variant of updateReportStatus that resets the data with the status.
updateReportStatusResetting(reportId, newStatus) ==
  /\ status' = IF reportId \in Reports
               THEN [status EXCEPT ![reportId] = newStatus]
               ELSE status
  /\ stored' = IF reportId \in Reports
               THEN [stored EXCEPT ![reportId] = EmptyData]
               ELSE stored

\* Model.findByIdAndUpdate(reportId, {status})
updateReportStatus(reportId, newStatus) ==
  /\ status' = IF reportId \in Reports
               THEN [status EXCEPT ![reportId] = newStatus]
               ELSE status
  /\ UNCHANGED stored

\* Variant of updateReportWithExtraction that writes the data only.
updateDataOnly(reportId, result) ==
  /\ stored' = IF reportId \in Reports
               THEN [stored EXCEPT ![reportId] = result.data]
               ELSE stored
  /\ UNCHANGED status

\* Model.findByIdAndUpdate(reportId, {status: COMPLETED, extractedData})
updateReportWithExtraction(reportId, result) ==
  /\ status' = IF reportId \in Reports
               THEN [status EXCEPT ![reportId] = COMPLETED]
               ELSE status
  /\ stored' = IF reportId \in Reports
               THEN [stored EXCEPT ![reportId] = result.data]
               ELSE stored

\* Step 4 of the pipeline is over: the result is assembled and
\* updateReportWithExtraction is issued.
AfterConflicts(c, warnings) ==
  Issue([c EXCEPT !.result =
           [data |-> c.extractedData,
            warnings |-> warnings,
            llmFallbackSections |-> c.llmFallbackSections,
            overallConfidence |->
              calculateOverallConfidence(c.structuredResult)]],
        "updateExtraction", "updateExtraction")

\* Variant of the end of runLlmFallback in which conflict detection gets
\* the data of the pattern extractor, without what the fallback resolved.
AfterFallbackOnPatternData(c) ==
  LET early == [c EXCEPT !.extractedData =
                  [name \in SectionNameSet |->
                     OrUndefined(c.structuredResult[name].data)]]
  IN IF SkipSemantic(early.extractedData)
     THEN AfterConflicts(early, detectConflicts(early.extractedData,
                                                Reply("error", Null)))
     ELSE Issue(early, "detectConflicts", "detectSemanticConflicts")

\* runLlmFallback is over: detectConflicts runs its programmatic check and
\* calls the model unless the data is minimal.
AfterFallback(c) ==
  IF SkipSemantic(c.extractedData)
  THEN AfterConflicts(c, detectConflicts(c.extractedData, Reply("error", Null)))
  ELSE Issue(c, "detectConflicts", "detectSemanticConflicts")

\* runLlmFallback from section i on (weather, manpower, workAreas, then the
\* notes), up to its next await.
RECURSIVE FallbackFrom(_, _)
FallbackFrom(c, i) ==
  LET name == SectionNames[i]
      section == c.structuredResult[name]
      carried == [c EXCEPT !.extractedData[name] = OrUndefined(section.data)]
  IN IF name = "notes" THEN AfterFallback(carried)
     ELSE IF section.needsLlmFallback /\ Truthy(section.rawText)
     THEN Issue([c EXCEPT !.section = i,
                          !.llmFallbackSections = Append(@, name)],
                "extractSection", "extractSection")
     ELSE FallbackFrom(carried, i + 1)

(***************************************************************************)
(* The consumer.                                                           *)
(***************************************************************************)
\* The harness of the extractors is at rest while the consumer runs.
HarnessAtRest ==
  /\ pdfText = <<>>
  /\ faults = {}
  /\ structuredResult = extract(<<>>, {})
  /\ llmResult = Undefined
  /\ calls = <<>>
  /\ ingestion = NoUploads

\* After construction: isProcessing = false, no invocation in flight.  The
\* ingestion side has created the reports as PENDING and has put up to
\* MaxQueued messages on the queue.
Init ==
  /\ isProcessing = FALSE
  /\ cycles = [s \in Slots |-> IdleCycle]
  /\ ticks = 0
  /\ polls = 0
  /\ lastPoll = "none"
  /\ \E queued \in SUBSET MsgIds :
       /\ Cardinality(queued) <= MaxQueued
       /\ msgState = [m \in MsgIds |-> IF m \in queued THEN "visible" ELSE "none"]
  /\ status = [r \in Reports |-> PENDING]
  /\ stored = [r \in Reports |-> Undefined]
  /\ HarnessAtRest

\* The timer fires and pollQueue returns at its guard.
pollQueueBusy ==
  /\ ticks < MaxTicks
  /\ AlreadyProcessing
  /\ ticks' = ticks + 1
  /\ DropTick
  /\ UNCHANGED <<polls, lastPoll, worldVars, harnessVars>>

\* The timer fires and pollQueue passes its guard: it takes the flag and
\* sends the ReceiveMessageCommand.
pollQueueStart ==
  /\ ticks < MaxTicks
  /\ ~AlreadyProcessing
  /\ \E s \in Slots :
       /\ ~Active(s)
       /\ \A t \in Slots : ~Active(t) => s <= t
       /\ cycles' = [cycles EXCEPT ![s] = Issue(IdleCycle, "receive", "receive")]
  /\ isProcessing' = TRUE
  /\ ticks' = ticks + 1
  /\ polls' = polls + 1
  /\ UNCHANGED <<lastPoll, worldVars, harnessVars>>

\* What a ReceiveMessageCommand may return: up to MaxNumberOfMessages of the
\* visible messages, possibly none of them.
Batches ==
  LET visible == {m \in MsgIds : msgState[m] = "visible"}
  IN {q \in UNION {[1..k -> visible] : k \in 0..MaxNumberOfMessages} :
        \A i, j \in DOMAIN q : i # j => q[i] # q[j]}

\* Variant of processMessage that removes from the queue a message it cannot
\* read, instead of returning.
ReceiveReturnDroppingUnreadable(s) ==
  /\ cycles[s].pc = "receive"
  /\ \/ /\ EndCycle(s, TRUE)
        /\ UNCHANGED msgState
     \/ \E batch \in Batches :
          /\ msgState' = [m \in MsgIds |->
                            IF \E i \in DOMAIN batch : batch[i] = m
                            THEN IF Message(m).body \in {"none", "notJson"}
                                 THEN "deleted" ELSE "inflight"
                            ELSE msgState[m]]
          /\ Resume(s, Loop(cycles[s], batch))
  /\ UNCHANGED <<ticks, polls, status, stored, harnessVars>>

\* await this.sqsClient.send(command) is back in pollQueue.
ReceiveReturn(s) ==
  /\ cycles[s].pc = "receive"
  /\ \/ /\ EndCycle(s, TRUE)
        /\ UNCHANGED msgState
     \/ \E batch \in Batches :
          /\ msgState' = [m \in MsgIds |->
                            IF \E i \in DOMAIN batch : batch[i] = m
                            THEN "inflight" ELSE msgState[m]]
          /\ Resume(s, Loop(cycles[s], batch))
  /\ UNCHANGED <<ticks, polls, status, stored, harnessVars>>

\* await this.updateReportStatus(reportId, PROCESSING) is back.
UpdateProcessingReturn(s) ==
  LET c == cycles[s] IN
  /\ c.pc = "updateProcessing"
  /\ \/ /\ \E t \in Targets(Current(c).reportId) :
             updateReportStatus(t, PROCESSING)
        /\ cycles' = [cycles EXCEPT ![s] = Issue(c, "extractText", "extractText")]
     \/ /\ cycles' = [cycles EXCEPT ![s] = Catch(c)]
        /\ UNCHANGED <<status, stored>>
  /\ UNCHANGED <<isProcessing, ticks, polls, lastPoll, msgState, harnessVars>>

\* Variant of the await of extractText with a timeout: when it runs out the
\* invocation is abandoned.
ExtractTextReturnCancelled(s) ==
  /\ cycles[s].pc = "extractText"
  /\ EndCycle(s, TRUE)
  /\ UNCHANGED <<ticks, polls, worldVars, harnessVars>>

\* await this.pdfParserService.extractText(s3Key) is back: it throws (no
\* such object, S3 unreachable, not a PDF), or the structured extraction
\* runs on the text and the fallback starts.
ExtractTextReturn(s) ==
  LET c == cycles[s] IN
  /\ c.pc = "extractText"
  /\ \/ cycles' = [cycles EXCEPT ![s] = Catch(c)]
     \/ /\ Current(c).s3Key \in Keys
        /\ \E text \in PdfTexts :
             cycles' = [cycles EXCEPT ![s] =
               FallbackFrom([c EXCEPT !.structuredResult = extract(text, {})], 1)]
  /\ UNCHANGED <<isProcessing, ticks, polls, lastPoll, worldVars, harnessVars>>

\* Variant of runLlmFallback that hands the whole text of the weather
\* section's result to the model, whatever the section.
PendingWeatherText(c) == c.structuredResult.weather.rawText

\* Variant of runLlmFallback that makes the call for the section after the
\* flagged one.
PendingSectionShifted(c) == SectionNames[c.section + 1]

\* The call of extractSection a cycle is suspended in: its arguments and,
\* for a reply of the model, what it returns.
PendingSection(c) == SectionNames[c.section]
PendingRawText(c) == c.structuredResult[PendingSection(c)].rawText
PendingResult(c, reply) ==
  extractSection(PendingSection(c), PendingRawText(c), reply)

\* Variant of runLlmFallback's await for an extractSection without its
\* catch block: a failed model call rejects and processMessage catches it.
ExtractSectionStepRejecting(s, reply) ==
  LET c == cycles[s]
      name == PendingSection(c)
      llm == PendingResult(c, reply)
  IN cycles' = [cycles EXCEPT ![s] =
       IF reply \in FailedReplies THEN Catch(c)
       ELSE FallbackFrom([c EXCEPT !.extractedData[name] = OrUndefined(llm.data)],
                         c.section + 1)]

\* Variant of runLlmFallback that falls back on the data of the pattern
\* extractor when the model extractor returned none.
ExtractSectionStepKeepingPattern(s, reply) ==
  LET c == cycles[s]
      name == PendingSection(c)
      llm == PendingResult(c, reply)
      data == IF Truthy(llm.data) THEN llm.data
              ELSE OrUndefined(c.structuredResult[name].data)
  IN cycles' = [cycles EXCEPT ![s] =
       FallbackFrom([c EXCEPT !.extractedData[name] = data], c.section + 1)]

\* runLlmFallback goes on with what extractSection returned for the reply.
ExtractSectionStep(s, reply) ==
  LET c == cycles[s]
      name == PendingSection(c)
      llm == PendingResult(c, reply)
  IN cycles' = [cycles EXCEPT ![s] =
       FallbackFrom([c EXCEPT !.extractedData[name] = OrUndefined(llm.data)],
                    c.section + 1)]

\* await this.llmExtractorService.extractSection(name, rawText) is back;
\* it does not throw.
ExtractSectionReturn(s) ==
  /\ cycles[s].pc = "extractSection"
  /\ \E reply \in ExtractionReplies(PendingSection(cycles[s])) :
       ExtractSectionStep(s, reply)
  /\ UNCHANGED <<isProcessing, ticks, polls, lastPoll, worldVars, harnessVars>>

\* runExtractionPipeline goes on with what detectConflicts returned for
\* the reply.
DetectConflictsStep(s, reply) ==
  LET c == cycles[s]
  IN cycles' = [cycles EXCEPT ![s] =
       AfterConflicts(c, detectConflicts(c.extractedData, reply))]

\* The model call of detectSemanticConflicts is back; it does not throw.
DetectConflictsReturn(s) ==
  /\ cycles[s].pc = "detectConflicts"
  /\ \E reply \in ConflictReplies : DetectConflictsStep(s, reply)
  /\ UNCHANGED <<isProcessing, ticks, polls, lastPoll, worldVars, harnessVars>>

\* await this.updateReportWithExtraction(reportId, result) is back.
UpdateExtractionReturn(s) ==
  LET c == cycles[s] IN
  /\ c.pc = "updateExtraction"
  /\ \/ /\ \E t \in Targets(Current(c).reportId) :
             updateReportWithExtraction(t, c.result)
        /\ cycles' = [cycles EXCEPT ![s] = Issue(c, "deleteMessage", "deleteMessage")]
     \/ /\ cycles' = [cycles EXCEPT ![s] = Catch(c)]
        /\ UNCHANGED <<status, stored>>
  /\ UNCHANGED <<isProcessing, ticks, polls, lastPoll, msgState, harnessVars>>

\* Variant of processMessage with the delete after its try block: an error
\* of the delete goes to pollQueue and the job is left as it is.
DeleteReturnUncaught(s) ==
  LET c == cycles[s] IN
  /\ c.pc = "deleteMessage"
  /\ \/ /\ msgState' = [msgState EXCEPT ![Current(c).id] = "deleted"]
        /\ Resume(s, NextMessage(c))
     \/ /\ EndCycle(s, TRUE)
        /\ UNCHANGED msgState
  /\ UNCHANGED <<ticks, polls, status, stored, harnessVars>>

\* await this.deleteMessage(message.ReceiptHandle) is back.
DeleteReturn(s) ==
  LET c == cycles[s] IN
  /\ c.pc = "deleteMessage"
  /\ \/ /\ msgState' = [msgState EXCEPT ![Current(c).id] = "deleted"]
        /\ Resume(s, NextMessage(c))
     \/ /\ cycles' = [cycles EXCEPT ![s] = Catch(c)]
        /\ UNCHANGED <<isProcessing, lastPoll, msgState>>
  /\ UNCHANGED <<ticks, polls, status, stored, harnessVars>>

\* await this.updateReportStatus(reportId, FAILED), in the catch block of
\* processMessage, is back.  When it throws, processMessage throws and
\* pollQueue catches.
UpdateFailedReturn(s) ==
  LET c == cycles[s] IN
  /\ c.pc = "updateFailed"
  /\ \/ /\ \E t \in Targets(Current(c).reportId) :
             updateReportStatus(t, FailureStatus)
        /\ Resume(s, NextMessage(c))
     \/ /\ EndCycle(s, TRUE)
        /\ UNCHANGED <<status, stored>>
  /\ UNCHANGED <<ticks, polls, msgState, harnessVars>>

\* The visibility timeout of a received message runs out, or the queue
\* delivers it again: it is visible once more.
Redeliver(m) ==
  /\ msgState[m] = "inflight"
  /\ msgState' = [msgState EXCEPT ![m] = "visible"]
  /\ UNCHANGED <<consumerVars, status, stored, harnessVars>>

Next ==
  \/ pollQueueBusy
  \/ pollQueueStart
  \/ \E s \in Slots : ReceiveReturn(s)
  \/ \E s \in Slots : UpdateProcessingReturn(s)
  \/ \E s \in Slots : ExtractTextReturn(s)
  \/ \E s \in Slots : ExtractSectionReturn(s)
  \/ \E s \in Slots : DetectConflictsReturn(s)
  \/ \E s \in Slots : UpdateExtractionReturn(s)
  \/ \E s \in Slots : DeleteReturn(s)
  \/ \E s \in Slots : UpdateFailedReturn(s)
  \/ \E m \in MsgIds : Redeliver(m)

Spec == Init /\ [][Next]_vars

\* An await of an invocation in flight comes back, with a value or an
\* error.
AwaitReturns ==
  \E s \in Slots :
    \/ ReceiveReturn(s)
    \/ UpdateProcessingReturn(s)
    \/ ExtractTextReturn(s)
    \/ ExtractSectionReturn(s)
    \/ DetectConflictsReturn(s)
    \/ UpdateExtractionReturn(s)
    \/ DeleteReturn(s)
    \/ UpdateFailedReturn(s)

\* The consumer when every external call eventually returns or fails: an
\* invocation suspended in an await is resumed.  The queue holds at most the
\* job message m1 and the unparseable message m3.
InitLive ==
  /\ Init
  /\ \A m \in MsgIds \ {"m1", "m3"} : msgState[m] = "none"

SpecLive == InitLive /\ [][Next]_vars /\ WF_vars(AwaitReturns)

(***************************************************************************)
(* The extractors on their own: StructuredExtractorService.extract on      *)
(* every text of up to MaxLines lines of the vocabulary, and               *)
(* LlmExtractorService.extractSection on the sections that ask for it.     *)
(***************************************************************************)
\* The consumer is at rest while the extractors are exercised.
ConsumerAtRest ==
  /\ isProcessing = FALSE
  /\ cycles = [s \in Slots |-> IdleCycle]
  /\ ticks = 0
  /\ polls = 0
  /\ lastPoll = "none"
  /\ msgState = [m \in MsgIds |-> "none"]
  /\ status = [r \in Reports |-> PENDING]
  /\ stored = [r \in Reports |-> Undefined]

InitExtract ==
  /\ ConsumerAtRest
  /\ pdfText = <<>>
  /\ faults = {}
  /\ structuredResult = extract(<<>>, {})
  /\ llmResult = Undefined
  /\ calls = <<>>
  /\ ingestion = NoUploads

\* this.structuredExtractorService.extract(pdfText) on a text one line
\* longer.
ExtractLonger ==
  /\ Len(pdfText) < MaxLines
  /\ \E line \in Vocabulary :
       /\ pdfText' = Append(pdfText, line)
       /\ structuredResult' = extract(pdfText', {})
  /\ faults' = {}
  /\ llmResult' = Undefined
  /\ UNCHANGED <<calls, consumerVars, worldVars, ingestion>>

\* extract on the same text, the parsing of one section raising: the catch
\* block of that section's extractor builds its result.
ExtractFaulty ==
  /\ faults = {}
  /\ \E name \in {"weather", "manpower", "workAreas"} :
       /\ faults' = {name}
       /\ structuredResult' = extract(pdfText, faults')
  /\ llmResult' = Undefined
  /\ UNCHANGED <<pdfText, calls, consumerVars, worldVars, ingestion>>

\* runLlmFallback's call of extractSection for a section that needs the
\* fallback and has raw text.
ExtractFallback ==
  /\ \E i \in 1..3 :
       LET name == SectionNames[i] IN
       /\ structuredResult[name].needsLlmFallback
       /\ Truthy(structuredResult[name].rawText)
       /\ \E reply \in ExtractionReplies(name) :
            llmResult' =
              extractSection(name, structuredResult[name].rawText, reply)
  /\ UNCHANGED <<pdfText, faults, structuredResult, calls, consumerVars,
                 worldVars, ingestion>>

NextExtract ==
  \/ ExtractLonger
  \/ ExtractFaulty
  \/ ExtractFallback

SpecExtract == InitExtract /\ [][NextExtract]_vars

(***************************************************************************)
(* One job through runExtractionPipeline, on documents put together from   *)
(* one variant of each section, the calls of the model recorded.           *)
(***************************************************************************)
\* The variants of a section: absent, (for the weather) a header with
\* nothing under it, prose the patterns do not match, text they match.
WeatherParts ==
  { <<>>,
    << "Weather:" >>,
    << "Weather:", "Nice day today" >>,
    << "Weather:", "High: 75F / Low: 55F", "Conditions: Partly Cloudy" >> }
ManpowerParts ==
  { <<>>,
    << "Manpower:", "Nice day today" >>,
    << "Manpower:", "ABC Corp: 5 workers", "XYZ Inc: 3 workers" >>,
    << "Manpower:", "ABC Corp: 5 workers", "Total: 8" >>,
    << "Manpower:", "ABC Corp: 5 workers", "XYZ Inc: 3 workers",
       "Total: 8 workers" >> }
WorkAreasParts ==
  { <<>>,
    << "Work Areas:", "Nice day today" >>,
    << "Work Areas:", "Building A: In Progress" >> }
NotesParts ==
  { <<>>,
    << "Notes:", "65-75F" >>,
    << "Notes:", "Nice day today" >> }
Documents ==
  { w \o m \o a \o n : w \in WeatherParts, m \in ManpowerParts,
                       a \in WorkAreasParts, n \in NotesParts }

\* A call of the model extractor or of the model conflict check, as the
\* pipeline made it: its arguments, the reply of the model, what it returned.
SectionCall(name, rawText, reply) ==
  [fn |-> "extractSection", name |-> name, rawText |-> rawText,
   data |-> Undefined, reply |-> reply,
   result |-> extractSection(name, rawText, reply)]
ConflictsCall(extractedData, reply) ==
  [fn |-> "detectSemanticConflicts", name |-> "", rawText |-> Undefined,
   data |-> extractedData, reply |-> reply,
   result |-> detectSemanticConflicts(reply)]

\* The consumer has received m1, has set r1 to PROCESSING and waits for the
\* text of the document.
JobStarted ==
  Issue(Loop(Issue(IdleCycle, "receive", "receive"), <<"m1">>),
        "extractText", "extractText")

InitPipeline ==
  /\ isProcessing = TRUE
  /\ cycles = [s \in Slots |-> IF s = 1 THEN JobStarted ELSE IdleCycle]
  /\ ticks = 1
  /\ polls = 1
  /\ lastPoll = "none"
  /\ msgState = [m \in MsgIds |-> IF m = "m1" THEN "inflight" ELSE "none"]
  /\ status = [r \in Reports |-> IF r = "r1" THEN PROCESSING ELSE PENDING]
  /\ stored = [r \in Reports |-> Undefined]
  /\ pdfText \in Documents
  /\ faults = {}
  /\ structuredResult = extract(<<>>, {})
  /\ llmResult = Undefined
  /\ calls = <<>>
  /\ ingestion = NoUploads

\* extractText is back with the text of the document: the structured
\* extraction runs and the fallback starts.
PipelineTextReturn(s) ==
  LET c == cycles[s] IN
  /\ c.pc = "extractText"
  /\ cycles' = [cycles EXCEPT ![s] =
       FallbackFrom([c EXCEPT !.structuredResult = extract(pdfText, {})], 1)]
  /\ UNCHANGED <<isProcessing, ticks, polls, lastPoll, worldVars, harnessVars>>

\* extractSection is back, the call recorded.
PipelineSectionReturn(s) ==
  LET c == cycles[s] IN
  /\ c.pc = "extractSection"
  /\ \E reply \in ExtractionReplies(PendingSection(c)) :
       /\ ExtractSectionStep(s, reply)
       /\ calls' = Append(calls, SectionCall(PendingSection(c),
                                             PendingRawText(c), reply))
  /\ UNCHANGED <<isProcessing, ticks, polls, lastPoll, worldVars, pdfText,
                 faults, structuredResult, llmResult, ingestion>>

\* The model call of detectSemanticConflicts is back, the call recorded.
PipelineConflictsReturn(s) ==
  LET c == cycles[s] IN
  /\ c.pc = "detectConflicts"
  /\ \E reply \in ConflictReplies :
       /\ DetectConflictsStep(s, reply)
       /\ calls' = Append(calls, ConflictsCall(c.extractedData, reply))
  /\ UNCHANGED <<isProcessing, ticks, polls, lastPoll, worldVars, pdfText,
                 faults, structuredResult, llmResult, ingestion>>

NextPipeline ==
  \/ \E s \in Slots : PipelineTextReturn(s)
  \/ \E s \in Slots : PipelineSectionReturn(s)
  \/ \E s \in Slots : PipelineConflictsReturn(s)
  \/ \E s \in Slots : UpdateExtractionReturn(s)
  \/ \E s \in Slots : DeleteReturn(s)
  \/ \E s \in Slots : UpdateFailedReturn(s)

SpecPipeline == InitPipeline /\ [][NextPipeline]_vars

(***************************************************************************)
(* Single calls of the functions of the pipeline, on inputs drawn from     *)
(* bounded sets, each call recorded with what it returned.                 *)
(***************************************************************************)
\* Bounds of the inputs: crews in a manpower record, workers in a crew.
MaxCrews == 2
MaxCount == 2

\* A section result with the given confidence; flagged: it asks for the
\* fallback and carries raw text and data.
ResultWith(confidence, flagged) ==
  [data |-> IF flagged THEN Str(<<"Nice day today">>) ELSE Null,
   confidence |-> confidence,
   needsLlmFallback |-> flagged,
   rawText |-> IF flagged THEN Str(<<"Nice day today">>) ELSE Undefined]

\* Structured results with every combination of section confidences.
StructuredResults ==
  { [name \in SectionNameSet |-> ResultWith(confidences[name], flagged)] :
      confidences \in [SectionNameSet -> ExtractionConfidence],
      flagged \in BOOLEAN }

\* Manpower records: a total and up to MaxCrews crews of up to MaxCount
\* workers, and the records the model may return.
CrewLists ==
  UNION { [1..k -> {LlmCrew(n) : n \in 0..MaxCount}] : k \in 0..MaxCrews }
ManpowerRecords ==
  { LlmManpower(total, crews) :
      total \in 0..(MaxCrews * MaxCount), crews \in CrewLists }
    \cup LlmData("manpower")

\* Extracted data as runLlmFallback may hand it to detectConflicts.
ExtractedDataWith(weather, manpower, workAreas, notes) ==
  [weather |-> weather, manpower |-> manpower, workAreas |-> workAreas,
   notes |-> notes]
ResolvedData ==
  { ExtractedDataWith(w, m, a, n) :
      w \in {Undefined} \cup LlmData("weather"),
      m \in {Undefined} \cup LlmData("manpower"),
      a \in {Undefined} \cup LlmData("workAreas"),
      n \in {Undefined} \cup LlmData("notes") }

RawTexts == { Str(<<"Nice day today">>), Str(<<"65-75F", "Total: 8">>) }

ConfidenceCall(result) ==
  [fn |-> "calculateOverallConfidence", name |-> "", rawText |-> Undefined,
   data |-> result, reply |-> Undefined,
   result |-> calculateOverallConfidence(result)]
ProgrammaticCall(extractedData) ==
  [fn |-> "checkProgrammaticConflicts", name |-> "", rawText |-> Undefined,
   data |-> extractedData, reply |-> Undefined,
   result |-> checkProgrammaticConflicts(extractedData)]
DetectCall(extractedData, reply) ==
  [fn |-> "detectConflicts", name |-> "", rawText |-> Undefined,
   data |-> extractedData, reply |-> reply,
   result |-> detectConflicts(extractedData, reply)]

InitCalls ==
  /\ ConsumerAtRest
  /\ HarnessAtRest

CallOverallConfidence ==
  /\ calls = <<>>
  /\ \E result \in StructuredResults : calls' = <<ConfidenceCall(result)>>
  /\ UNCHANGED <<consumerVars, worldVars, pdfText, faults, structuredResult,
                 llmResult, ingestion>>

CallExtractSection ==
  /\ calls = <<>>
  /\ \E name \in SectionNameSet, rawText \in RawTexts :
       \E reply \in ExtractionReplies(name) :
         calls' = <<SectionCall(name, rawText, reply)>>
  /\ UNCHANGED <<consumerVars, worldVars, pdfText, faults, structuredResult,
                 llmResult, ingestion>>

CallCheckProgrammaticConflicts ==
  /\ calls = <<>>
  /\ \E manpower \in ManpowerRecords \cup {Undefined} :
       calls' = <<ProgrammaticCall(
                    ExtractedDataWith(Undefined, manpower, Undefined, Undefined))>>
  /\ UNCHANGED <<consumerVars, worldVars, pdfText, faults, structuredResult,
                 llmResult, ingestion>>

CallDetectConflicts ==
  /\ calls = <<>>
  /\ \E extractedData \in ResolvedData, reply \in ConflictReplies :
       calls' = <<DetectCall(extractedData, reply)>>
  /\ UNCHANGED <<consumerVars, worldVars, pdfText, faults, structuredResult,
                 llmResult, ingestion>>

NextCalls ==
  \/ CallOverallConfidence
  \/ CallExtractSection
  \/ CallCheckProgrammaticConflicts
  \/ CallDetectConflicts

SpecCalls == InitCalls /\ [][NextCalls]_vars

(***************************************************************************)
(* extract on a document of several sections, the parsing of one of them   *)
(* raising.                                                                *)
(***************************************************************************)
InitFaults ==
  /\ ConsumerAtRest
  /\ pdfText \in Documents
  /\ faults = {}
  /\ structuredResult = extract(pdfText, {})
  /\ llmResult = Undefined
  /\ calls = <<>>
  /\ ingestion = NoUploads

NextFaults == ExtractFaulty

SpecFaults == InitFaults /\ [][NextFaults]_vars

(***************************************************************************)
(* Repeated calls of extract on one StructuredExtractorService, each       *)
(* recorded with its text and its result.                                  *)
(***************************************************************************)
\* Bound: the calls made on the service.
MaxExtractCalls == 3

\* The texts handed to extract.
RepeatTexts == PdfTexts \cup WeatherParts \cup ManpowerParts

\* Variant of extract on a service that keeps the position of its last
\* match: after a call on a text with a weather header, the next call
\* does not find the weather section.
extractKeepingPosition(previous, text) ==
  IF previous # <<>> /\ previous[Len(previous)].result.weather.rawText # Undefined
  THEN [extract(text, {}) EXCEPT !.weather = SectionAbsent]
  ELSE extract(text, {})

\* extract on a service that has served the previous calls: the service
\* has no field that a call writes, and its patterns carry no position.
extractAfter(previous, text) == extract(text, {})

ExtractCall(previous, text) ==
  [fn |-> "extract", name |-> "", rawText |-> Undefined, data |-> text,
   reply |-> Undefined, result |-> extractAfter(previous, text)]

CallExtract ==
  /\ Len(calls) < MaxExtractCalls
  /\ \E text \in RepeatTexts : calls' = Append(calls, ExtractCall(calls, text))
  /\ UNCHANGED <<consumerVars, worldVars, pdfText, faults, structuredResult,
                 llmResult, ingestion>>

NextRepeat == CallExtract

SpecRepeat == InitCalls /\ [][NextRepeat]_vars

(***************************************************************************)
(* IngestionService.uploadReport: a request puts the file in the bucket,   *)
(* saves the report as PENDING and publishes the processing message, one   *)
(* await after the other; a request has its own key and its own report.    *)
(***************************************************************************)
InitUpload ==
  /\ ConsumerAtRest
  /\ HarnessAtRest

\* uploadReport is called: the key is generated and uploadFile is issued.
uploadReportStart(q) ==
  /\ ingestion.pc[q] = "idle"
  /\ ingestion' = [ingestion EXCEPT !.pc[q] = "uploadFile"]
  /\ UNCHANGED <<consumerVars, worldVars, pdfText, faults, structuredResult,
                 llmResult, calls>>

\* Variant of uploadReport that publishes the message right after the
\* upload of the file, before the report is saved.
UploadFileReturnThenPublish(q) ==
  /\ ingestion.pc[q] = "uploadFile"
  /\ \/ ingestion' = [ingestion EXCEPT !.objects = @ \cup {q},
                                       !.pc[q] = "publish"]
     \/ ingestion' = [ingestion EXCEPT !.pc[q] = "threw"]
  /\ UNCHANGED <<consumerVars, worldVars, pdfText, faults, structuredResult,
                 llmResult, calls>>

\* await this.s3StorageService.uploadFile(...) is back: the object is in
\* the bucket and the document is built and its save issued, or the call
\* threw and so does uploadReport.
UploadFileReturn(q) ==
  /\ ingestion.pc[q] = "uploadFile"
  /\ \/ ingestion' = [ingestion EXCEPT !.objects = @ \cup {q},
                                       !.pc[q] = "save"]
     \/ ingestion' = [ingestion EXCEPT !.pc[q] = "threw"]
  /\ UNCHANGED <<consumerVars, worldVars, pdfText, faults, structuredResult,
                 llmResult, calls>>

\* await dailyReport.save() is back: the report is saved with status
\* PENDING and the message is issued, or save threw and so does
\* uploadReport; nothing is taken back.
SaveReturn(q) ==
  /\ ingestion.pc[q] = "save"
  /\ \/ ingestion' = [ingestion EXCEPT !.documents = @ \cup {q},
                                       !.pc[q] = "publish"]
     \/ ingestion' = [ingestion EXCEPT !.pc[q] = "threw"]
  /\ UNCHANGED <<consumerVars, worldVars, pdfText, faults, structuredResult,
                 llmResult, calls>>

\* await this.messagingService.publishProcessingMessage(...) is back: the
\* message is on the queue and uploadReport returns the report, or the send
\* failed, publishProcessingMessage rethrows and so does uploadReport;
\* nothing is taken back.
PublishReturn(q) ==
  /\ ingestion.pc[q] = "publish"
  /\ \/ ingestion' = [ingestion EXCEPT !.published = @ \cup {q},
                                       !.pc[q] = "returned"]
     \/ ingestion' = [ingestion EXCEPT !.pc[q] = "threw"]
  /\ UNCHANGED <<consumerVars, worldVars, pdfText, faults, structuredResult,
                 llmResult, calls>>

NextUpload ==
  \/ \E q \in Requests : uploadReportStart(q)
  \/ \E q \in Requests : UploadFileReturn(q)
  \/ \E q \in Requests : SaveReturn(q)
  \/ \E q \in Requests : PublishReturn(q)

SpecUpload == InitUpload /\ [][NextUpload]_vars

(***************************************************************************)
(* Properties of the consumer                                              *)
(***************************************************************************)
\* The operations a pollQueue invocation has issued for the message it is
\* processing: its log after the last call of processMessage.
Attempt(log) ==
  LET starts == {i \in 1..Len(log) : log[i] = "processMessage"}
  IN IF starts = {} THEN <<>> ELSE SubSeq(log, Max(starts) + 1, Len(log))

Issued(ops, op) == \E i \in 1..Len(ops) : ops[i] = op

\* Where op comes first in ops; 0: nowhere.
Pos(ops, op) ==
  IF Issued(ops, op) THEN Min({i \in 1..Len(ops) : ops[i] = op}) ELSE 0

\* The cycle is processing a message.
Handling(c) == c.pc # "idle" /\ c.messages # <<>>

\* A message whose body parses and has both required fields.
WellFormed(m) ==
  m.body = "json" /\ m.reportId \in Reports /\ m.s3Key \in Keys

\* C1: a timer tick that arrives while a poll cycle is in flight issues no
\* queue operation (no receive, no delete), writes no status, and leaves
\* the reentrancy flag and the in-flight cycle as they were.
C1_BusyTickChangesNothing ==
  [][(ticks' # ticks /\ isProcessing) =>
       UNCHANGED <<isProcessing, cycles, msgState, status, stored>>]_vars

\* A tick has been dropped and the cycle it found is still in flight, at
\* the text fetch.
C1_Witness ==
  /\ isProcessing
  /\ ticks > polls
  /\ \E s \in Slots : cycles[s].pc = "extractText"

\* C2: whatever the interleaving of ticks with the suspension points of a
\* job, at most one poll cycle is in flight, and the flag is held for as
\* long as it is.
C2_OneJobAtATime ==
  /\ Cardinality({s \in Slots : Active(s)}) <= 1
  /\ \A s \in Slots : Active(s) => isProcessing

\* A tick has been dropped while a job waits for a model call and another
\* message waits on the queue.
C2_Witness ==
  /\ ticks > polls
  /\ \E s \in Slots : cycles[s].pc = "detectConflicts"
  /\ \E m \in MsgIds : msgState[m] = "visible"

\* C3: a poll cycle that ends, whatever its outcome, has released the flag:
\* the consumer is idle and the next tick can poll.
C3_FlagReleasedAtCycleEnd ==
  [][\A s \in Slots :
       (Active(s) /\ cycles'[s].pc = "idle") =>
         /\ ~isProcessing'
         /\ \A t \in Slots : cycles'[t].pc = "idle"]_vars

\* A cycle has ended in the catch block of pollQueue, the write of FAILED
\* having thrown: the job is still PROCESSING and the consumer is idle.
C3_Witness ==
  /\ ~isProcessing
  /\ lastPoll = "caught"
  /\ status["r1"] = PROCESSING
  /\ \A s \in Slots : ~Active(s)

\* C4: a message is deleted only if, in the same attempt, the extraction
\* result was written and the job's status was set to COMPLETED before the
\* delete was issued; no delete for a failed attempt or a malformed body.
C4_DeleteOnlyAfterCompleted ==
  [][\A m \in MsgIds :
       (msgState[m] # "deleted" /\ msgState'[m] = "deleted") =>
         \E s \in Slots :
           LET c == cycles[s]
               ops == Attempt(c.log)
           IN /\ Handling(c)
              /\ Current(c).id = m
              /\ WellFormed(Current(c))
              /\ 0 < Pos(ops, "updateExtraction")
              /\ Pos(ops, "updateExtraction") < Pos(ops, "deleteMessage")
              /\ ~Issued(ops, "updateStatus:failed")
              /\ status[Current(c).reportId] = COMPLETED]_vars

\* The cycle is between the write of PROCESSING and the write of the
\* result: runExtractionPipeline is running or has just returned.
InPipeline(c) ==
  c.pc \in {"extractText", "extractSection", "detectConflicts", "updateExtraction"}

\* C5: in an attempt, PROCESSING is written before the pipeline starts with
\* the text extraction and is the job's status while it runs; the data and
\* COMPLETED are written after the pipeline; the delete is issued only
\* then, the job being COMPLETED with the attempt's data.
C5_SuccessOrder ==
  \A s \in Slots :
    LET c == cycles[s]
        ops == Attempt(c.log)
    IN Handling(c) =>
         /\ Issued(ops, "extractText") =>
              /\ Pos(ops, "updateStatus:processing") = 1
              /\ Pos(ops, "extractText") = 2
         /\ Issued(ops, "updateExtraction") =>
              /\ Issued(ops, "extractText")
              /\ Pos(ops, "extractText") < Pos(ops, "updateExtraction")
         /\ Issued(ops, "deleteMessage") =>
              /\ Issued(ops, "updateExtraction")
              /\ Pos(ops, "updateExtraction") < Pos(ops, "deleteMessage")
         /\ (InPipeline(c) /\ Current(c).reportId \in Reports) =>
              status[Current(c).reportId] = PROCESSING
         /\ (c.pc = "deleteMessage" /\ Current(c).reportId \in Reports) =>
              /\ status[Current(c).reportId] = COMPLETED
              /\ stored[Current(c).reportId] = c.result.data

\* The delete of m1 is issued: r1 is COMPLETED and holds the data of the
\* clean document.
C5_Witness ==
  \E s \in Slots :
    /\ cycles[s].pc = "deleteMessage"
    /\ Current(cycles[s]).id = "m1"
    /\ status["r1"] = COMPLETED
    /\ Truthy(stored["r1"].weather)

\* The pipeline of the attempt threw: the text extraction was issued, the
\* result was not written, the catch block has issued the write of FAILED.
PipelineThrew(c) ==
  /\ c.pc = "updateFailed"
  /\ Issued(Attempt(c.log), "extractText")
  /\ ~Issued(Attempt(c.log), "updateExtraction")

C7_StatusLifecycle ==
  [][\A r \in Reports :
       status'[r] # status[r] =>
         <<status[r], status'[r]>> \in
           {<<PENDING, PROCESSING>>, <<PROCESSING, COMPLETED>>,
            <<PROCESSING, FAILED>>}]_vars

\* C7, amended: no status returns to PENDING, and every change made for a
\* message that names its job is a change to PROCESSING, a change to
\* FAILED, or PROCESSING -> COMPLETED.
C7_StatusChanges ==
  [][\A r \in Reports :
       status'[r] # status[r] =>
         /\ status'[r] # PENDING
         /\ \A s \in Slots :
              (Handling(cycles[s]) /\ Current(cycles[s]).reportId \in Reports) =>
                \/ status'[r] \in {PROCESSING, FAILED}
                \/ status[r] = PROCESSING /\ status'[r] = COMPLETED]_vars

\* m1 is the only message, it has been received a second time and r1 has
\* been set to PROCESSING again.
C7_Witness ==
  /\ polls = 2
  /\ \A m \in MsgIds : m # "m1" => msgState[m] = "none"
  /\ \E s \in Slots :
       /\ cycles[s].pc = "extractText"
       /\ Current(cycles[s]).id = "m1"
  /\ status["r1"] = PROCESSING

\* C8: while the consumer handles a message that lacks a required field no
\* status changes.  (A body that is not JSON is never handled: the loop of
\* pollQueue is over it within the step that receives it.)
C8_MalformedNoStatusWrite ==
  [][(\E s \in Slots :
        Handling(cycles[s]) /\ ~WellFormed(Current(cycles[s]))) =>
       status' = status]_vars

\* C9: a poll cycle issues one receive and calls processMessage at most
\* once, and a receive takes at most one message off the queue.
C9_OneReceiveOneMessage ==
  [][/\ \A s \in Slots :
          cycles'[s].pc # "idle" =>
            /\ Count(cycles'[s].log, "receive") = 1
            /\ Count(cycles'[s].log, "processMessage") <= 1
     /\ Cardinality({m \in MsgIds :
                       msgState[m] # "inflight" /\ msgState'[m] = "inflight"}) <= 1]_vars

\* A message is being handled while another one is visible on the queue.
C9_Witness ==
  /\ \E s \in Slots : cycles[s].pc = "updateProcessing"
  /\ \E m \in MsgIds : msgState[m] = "visible"

(***************************************************************************)
(* Properties of the extractors                                            *)
(***************************************************************************)
Consistent(result) ==
  /\ result.needsLlmFallback => result.confidence = LOW
  /\ result.confidence = HIGH => ~result.needsLlmFallback

\* C10: every section result of the structured extractor and of the model
\* extractor satisfies: needsLlmFallback implies LOW confidence, and HIGH
\* confidence implies no fallback.
C10_FallbackOnlyWhenLow ==
  /\ \A name \in SectionNameSet : Consistent(structuredResult[name])
  /\ llmResult # Undefined => Consistent(llmResult)

\* The structured extractor asked for the fallback on the manpower section
\* (LOW confidence); the model answered with MEDIUM confidence.
C10_Witness ==
  /\ structuredResult.manpower.needsLlmFallback
  /\ llmResult # Undefined
  /\ llmResult.confidence = MEDIUM

(***************************************************************************)
(* Properties of the pipeline                                              *)
(***************************************************************************)
\* The cycle holds the result of the structured extraction.
Computed(c) == c.structuredResult # Undefined

\* runLlmFallback of the cycle is over and its locals are still there.
FallbackDone(c) ==
  c.pc \in {"detectConflicts", "updateExtraction", "deleteMessage"}

HeaderFound(name) ==
  \E i \in 1..Len(pdfText) : sectionPatterns(name, pdfText[i])

IsSectionCall(call) == call.fn = "extractSection"
IsConflictsCall(call) == call.fn = "detectSemanticConflicts"
SectionCalls == SelectSeq(calls, IsSectionCall)
ConflictsCalls == SelectSeq(calls, IsConflictsCall)

\* C11: a section whose header is not in the text gets data absent, LOW
\* confidence, no fallback flag and no raw text, and the model extractor
\* is never called for it.
C11_AbsentSectionNoFallback ==
  \A s \in Slots : \A name \in SectionNameSet :
    (Computed(cycles[s]) /\ ~HeaderFound(name)) =>
      /\ cycles[s].structuredResult[name].data = Null
      /\ cycles[s].structuredResult[name].confidence = LOW
      /\ ~cycles[s].structuredResult[name].needsLlmFallback
      /\ cycles[s].structuredResult[name].rawText = Undefined
      /\ \A i \in 1..Len(cycles[s].llmFallbackSections) :
           cycles[s].llmFallbackSections[i] # name
      /\ \A i \in 1..Len(calls) : calls[i].name # name

\* The text has no weather section and a manpower section in prose: the
\* fallback has run for the manpower alone.
C11_Witness ==
  /\ ~HeaderFound("weather")
  /\ \E s \in Slots :
       /\ cycles[s].pc = "updateExtraction"
       /\ cycles[s].llmFallbackSections = <<"manpower">>
       /\ cycles[s].structuredResult.weather.confidence = LOW

\* The sections among weather, manpower and work areas whose structured
\* result asks for the fallback and has raw text, in that order.
Flagged(c) ==
  LET Flag(name) == /\ c.structuredResult[name].needsLlmFallback
                    /\ Truthy(c.structuredResult[name].rawText)
  IN SelectSeq(SubSeq(SectionNames, 1, 3), Flag)

\* C12: the model extractor is called once for each flagged section, in
\* order, with the section's name and raw text, and for no other section.
C12_FallbackCallsExactlyFlagged ==
  \A s \in Slots :
    LET c == cycles[s] IN
    Computed(c) =>
      /\ Len(SectionCalls) <= Len(Flagged(c))
      /\ \A i \in 1..Len(SectionCalls) :
           /\ SectionCalls[i].name = Flagged(c)[i]
           /\ SectionCalls[i].rawText = c.structuredResult[Flagged(c)[i]].rawText
      /\ c.pc = "extractSection" =>
           /\ Len(SectionCalls) < Len(Flagged(c))
           /\ PendingSection(c) = Flagged(c)[Len(SectionCalls) + 1]
      /\ FallbackDone(c) =>
           /\ Len(SectionCalls) = Len(Flagged(c))
           /\ c.llmFallbackSections = Flagged(c)

\* The text is a weather section in prose and nothing else: LOW
\* confidence, fallback asked for, and one call of the model extractor,
\* for "weather" with the prose.
C12_Witness ==
  /\ pdfText = << "Weather:", "Nice day today" >>
  /\ Len(calls) = 1
  /\ calls[1].fn = "extractSection"
  /\ calls[1].name = "weather"
  /\ calls[1].rawText = Str(<< "Nice day today" >>)
  /\ \E s \in Slots :
       /\ FallbackDone(cycles[s])
       /\ cycles[s].structuredResult.weather.confidence = LOW
       /\ cycles[s].structuredResult.weather.needsLlmFallback

(***************************************************************************)
(* Properties of single calls                                              *)
(***************************************************************************)
\* The confidences of the four sections of a structured result.
Confidences(result) ==
  << result.weather.confidence, result.manpower.confidence,
     result.workAreas.confidence, result.notes.confidence >>

\* LOW if at least two are LOW, otherwise HIGH if at least three are HIGH,
\* otherwise MEDIUM.
Aggregate(confidences) ==
  IF Count(confidences, LOW) >= 2 THEN LOW
  ELSE IF Count(confidences, HIGH) >= 3 THEN HIGH
  ELSE MEDIUM

\* C13: calculateOverallConfidence returns the aggregate of the four
\* section confidences, whatever else the section results hold; the three
\* examples of the specification come out HIGH, LOW and MEDIUM.
C13_OverallConfidenceRule ==
  /\ \A i \in 1..Len(calls) :
       calls[i].fn = "calculateOverallConfidence" =>
         calls[i].result = Aggregate(Confidences(calls[i].data))
  /\ Aggregate(<<HIGH, HIGH, HIGH, MEDIUM>>) = HIGH
  /\ Aggregate(<<LOW, LOW, MEDIUM, HIGH>>) = LOW
  /\ Aggregate(<<MEDIUM, MEDIUM, HIGH, LOW>>) = MEDIUM

\* The call on three HIGH sections and one LOW section has returned HIGH.
C13_Witness ==
  /\ Len(calls) = 1
  /\ calls[1].fn = "calculateOverallConfidence"
  /\ Confidences(calls[1].data) = <<HIGH, HIGH, HIGH, LOW>>
  /\ calls[1].result = HIGH

\* The pipeline has assembled its result.
Assembled(c) == c.result # Undefined

\* The confidence of a section once the fallback is over: the one the
\* model extractor returned if the section was handed to it, the pattern
\* extractor's otherwise.
RECURSIVE FinalConfidence(_, _, _)
FinalConfidence(c, name, i) ==
  IF i > Len(SectionCalls) THEN c.structuredResult[name].confidence
  ELSE IF SectionCalls[i].name = name THEN SectionCalls[i].result.confidence
  ELSE FinalConfidence(c, name, i + 1)
FinalConfidences(c) ==
  << FinalConfidence(c, "weather", 1), FinalConfidence(c, "manpower", 1),
     FinalConfidence(c, "workAreas", 1), FinalConfidence(c, "notes", 1) >>

\* C14: the overall confidence of an assembled result is the aggregate of
\* the four section confidences after the fallback, where a section handed
\* to the model extractor counts with the confidence that call returned.
C14_OverallFromFinalConfidences ==
  \A s \in Slots :
    Assembled(cycles[s]) =>
      cycles[s].result.overallConfidence = Aggregate(FinalConfidences(cycles[s]))

\* The replies of the model that are an empty response, a response that
\* is not valid JSON, or a failed transport call.
NoUsableReply(reply) == reply.kind \in {"error", "empty", "notJson"}

\* C15: for every section name and raw text, on an empty response, a
\* response that is not valid JSON or a failed call, extractSection returns
\* (it does not throw) data null, confidence LOW and needsLlmFallback false.
C15_FailedReplyGivesLowNoRetry ==
  \A i \in 1..Len(calls) :
    (calls[i].fn = "extractSection" /\ NoUsableReply(calls[i].reply)) =>
      /\ calls[i].result.data = Null
      /\ calls[i].result.confidence = LOW
      /\ calls[i].result.needsLlmFallback = FALSE

\* extractSection was called for the manpower section and the model's
\* response was not valid JSON.
C15_Witness ==
  /\ Len(calls) = 1
  /\ calls[1].fn = "extractSection"
  /\ calls[1].name = "manpower"
  /\ calls[1].reply.kind = "notJson"
  /\ calls[1].result.confidence = LOW

\* C16: on a parseable response whose data field is not null, extractSection
\* returns that data with confidence MEDIUM, never HIGH, and
\* needsLlmFallback false.
C16_ParsedReplyGivesMedium ==
  \A i \in 1..Len(calls) :
    (calls[i].fn = "extractSection" /\ calls[i].reply.kind = "value") =>
      /\ calls[i].reply.value # Null
      /\ calls[i].result.data = calls[i].reply.value
      /\ calls[i].result.confidence = MEDIUM
      /\ calls[i].result.needsLlmFallback = FALSE

\* extractSection was called for the weather section and the model
\* returned weather data.
C16_Witness ==
  /\ Len(calls) = 1
  /\ calls[1].fn = "extractSection"
  /\ calls[1].name = "weather"
  /\ calls[1].reply = Reply("value", LlmWeather)
  /\ calls[1].result.data = LlmWeather

\* The total-mismatch warnings among the warnings returned.
IsTotalMismatch(w) ==
  w.type = "manpower_total_mismatch" /\ w.severity = "warning"
TotalMismatches(warnings) == SelectSeq(warnings, IsTotalMismatch)

\* Manpower data with an explicit total (a positive one: the pattern
\* extractor writes 0 for a missing total) and a non-empty crew list.
TotalAndCrews(manpower) ==
  /\ Truthy(manpower)
  /\ manpower.totalWorkers > 0
  /\ Len(manpower.crews) > 0

\* C17: for manpower data with an explicit total and a non-empty crew list,
\* checkProgrammaticConflicts returns a total-mismatch warning if and only
\* if the total differs from the sum of the crew counts, and never more
\* than one.
C17_MismatchIffTotalDiffers ==
  \A i \in 1..Len(calls) :
    (calls[i].fn = "checkProgrammaticConflicts"
       /\ TotalAndCrews(calls[i].data.manpower)) =>
      LET manpower == calls[i].data.manpower
          found == TotalMismatches(calls[i].result)
      IN /\ Len(found) <= 1
         /\ Len(found) = 1 <=> manpower.totalWorkers # SumCounts(manpower.crews)

(***************************************************************************)
(* Properties of conflict detection and of failures of the model           *)
(***************************************************************************)
\* Weather, manpower and notes are all absent from the resolved data.
NothingToCompare(extractedData) ==
  /\ extractedData.weather = Undefined
  /\ extractedData.manpower = Undefined
  /\ extractedData.notes = Undefined

\* C18: conflict detection calls the model not at all when weather, manpower
\* and notes are all absent from the resolved data, work areas or not, and
\* the warnings are then those of the programmatic check alone; it calls
\* the model exactly once otherwise, and never before the fallback is over.
C18_SemanticSkippedOnMinimalData ==
  \A s \in Slots :
    LET c == cycles[s] IN
    /\ c.pc \in {"extractText", "extractSection"} => Len(ConflictsCalls) = 0
    /\ Assembled(c) =>
         IF NothingToCompare(c.result.data)
         THEN /\ Len(ConflictsCalls) = 0
              /\ c.result.warnings = checkProgrammaticConflicts(c.result.data)
         ELSE /\ Len(ConflictsCalls) = 1
              /\ ConflictsCalls[1].data = c.result.data

\* A result was assembled for a text with work areas only, without a call
\* of the model.
C18_Witness ==
  \E s \in Slots :
    /\ Assembled(cycles[s])
    /\ NothingToCompare(cycles[s].result.data)
    /\ cycles[s].result.data.workAreas # Undefined
    /\ calls = <<>>

\* The conflict call of the job has come back without a usable reply.
ConflictCheckFailed ==
  /\ Len(ConflictsCalls) = 1
  /\ NoUsableReply(ConflictsCalls[1].reply)

\* The return of detectConflicts is followed by the write of the result,
\* never by the catch block of processMessage.
ConflictsReturnGoesOn ==
  \A s \in Slots :
    (cycles[s].pc = "detectConflicts" /\ cycles'[s] # cycles[s]) =>
      /\ cycles'[s].pc = "updateExtraction"
      /\ Assembled(cycles'[s])

\* C19: a failed call, an empty response or an unparseable response in the
\* semantic conflict check does not fail the job: detectConflicts returns,
\* with exactly the warnings of the programmatic check, and the job goes on
\* to write COMPLETED and delete its message.
C19_ConflictFailureNotFatal ==
  /\ [](\A s \in Slots :
          (ConflictCheckFailed /\ Assembled(cycles[s])) =>
            cycles[s].result.warnings =
              checkProgrammaticConflicts(cycles[s].result.data))
  /\ [][ConflictsReturnGoesOn]_vars

\* The model call of the conflict check was rejected for a job whose
\* manpower total disagrees with its crews; the job is COMPLETED with that
\* data and its message is deleted.
C19_Witness ==
  /\ ConflictCheckFailed
  /\ ConflictsCalls[1].reply.kind = "error"
  /\ checkProgrammaticConflicts(ConflictsCalls[1].data) # <<>>
  /\ status["r1"] = COMPLETED
  /\ stored["r1"] = ConflictsCalls[1].data
  /\ msgState["m1"] = "deleted"

\* The return of extractSection is followed by the next flagged section
\* or by conflict detection, never by the catch block of processMessage.
SectionReturnGoesOn ==
  \A s \in Slots :
    (cycles[s].pc = "extractSection" /\ cycles'[s] # cycles[s]) =>
      /\ cycles'[s].pc \in {"extractSection", "detectConflicts", "updateExtraction"}
      /\ cycles'[s].pc = "extractSection" =>
           cycles'[s].section > cycles[s].section

\* The calls of extractSection that came back without data.
FailedSectionCall(call) ==
  call.fn = "extractSection" /\ call.reply \in FailedReplies

\* C20: a failure of the model extractor for a flagged section (call
\* rejected, empty or malformed output) is not propagated: the pipeline goes
\* on with the remaining flagged sections and with conflict detection, the
\* section is left out of the data, and the result is assembled for the
\* write of COMPLETED.
C20_FallbackFailureAbsorbed ==
  /\ [][SectionReturnGoesOn]_vars
  /\ [](\A s \in Slots :
          LET c == cycles[s] IN
          (Computed(c) /\ FallbackDone(c)) =>
            /\ Len(SectionCalls) = Len(Flagged(c))
            /\ \A i \in 1..Len(SectionCalls) :
                 FailedSectionCall(SectionCalls[i]) =>
                   c.extractedData[SectionCalls[i].name] = Undefined)

\* The model extractor failed for the manpower section, was then called
\* for the work areas, and the job is COMPLETED with its message deleted.
C20_Witness ==
  /\ Len(SectionCalls) = 2
  /\ SectionCalls[1].name = "manpower"
  /\ FailedSectionCall(SectionCalls[1])
  /\ SectionCalls[2].name = "workAreas"
  /\ status["r1"] = COMPLETED
  /\ msgState["m1"] = "deleted"

(***************************************************************************)
(* Properties of a job's attempt                                           *)
(***************************************************************************)
\* The pipeline of the cycle is running: its result is not assembled yet.
BeforeAssembly(c) == c.pc \in {"extractText", "extractSection", "detectConflicts"}

\* C21: while the pipeline runs, and in the catch block after it threw
\* before its result was written, the attempt writes no extracted data: the
\* stored data of every report stays as it was, and the only status that
\* is written is FAILED, by the catch block.
C21_NoPartialResult ==
  [][\A s \in Slots :
       LET c == cycles[s] IN
       ((BeforeAssembly(c) \/ PipelineThrew(c)) /\ cycles'[s] # c) =>
         /\ stored' = stored
         /\ \A r \in Reports :
              status'[r] # status[r] =>
                PipelineThrew(c) /\ status'[r] = FAILED]_vars

\* The text extraction of the job of r1 threw: r1 is FAILED and has no
\* extracted data.
C21_Witness ==
  /\ status["r1"] = FAILED
  /\ stored["r1"] = Undefined
  /\ \E s \in Slots :
       LET ops == Attempt(cycles[s].log)
       IN /\ Issued(ops, "extractText")
          /\ Issued(ops, "updateStatus:failed")
          /\ ~Issued(ops, "extractSection")
          /\ ~Issued(ops, "detectSemanticConflicts")
          /\ ~Issued(ops, "updateExtraction")

(***************************************************************************)
(* Properties of the pattern extractor                                     *)
(***************************************************************************)
\* The workers a line of a manpower section lists for a crew.
WorkersListed(line) ==
  CASE line = "ABC Corp: 5 workers" -> 5
    [] line = "XYZ Inc: 3 workers" -> 3
    [] OTHER -> 0
RECURSIVE WorkersOnLines(_)
WorkersOnLines(lines) ==
  IF lines = <<>> THEN 0
  ELSE WorkersListed(Head(lines)) + WorkersOnLines(Tail(lines))

\* A line with a "total" label.
HasTotalLabel(lines) ==
  \E i \in 1..Len(lines) : lines[i] \in {"Total: 8 workers", "Total: 8"}

\* C22: when the manpower section has crew entries and no explicit total,
\* totalWorkers is the sum of the workers of the crews; crews of 5 and 3
\* workers give 8.
C22_TotalDefaultsToCrewSum ==
  LET section == extractSectionText(pdfText, "manpower")
      manpower == structuredResult.manpower
  IN /\ (faults = {} /\ Truthy(section) /\ ~HasTotalLabel(section.lines)
           /\ manpower.data.crews # <<>>) =>
          manpower.data.totalWorkers = WorkersOnLines(section.lines)
     /\ (faults = {}
           /\ pdfText = << "Manpower:", "ABC Corp: 5 workers", "XYZ Inc: 3 workers" >>) =>
          manpower.data.totalWorkers = 8

\* The manpower section lists crews of 5 and 3 workers and no total, and
\* extract has returned two crews.
C22_Witness ==
  /\ faults = {}
  /\ pdfText = << "Manpower:", "ABC Corp: 5 workers", "XYZ Inc: 3 workers" >>
  /\ Len(structuredResult.manpower.data.crews) = 2
  /\ structuredResult.manpower.data.totalWorkers = 8

C24_UploadAllOrNothing ==
  \A q \in Requests :
    /\ ingestion.pc[q] = "returned" =>
         /\ q \in ingestion.objects
         /\ q \in ingestion.documents
         /\ q \in ingestion.published
    /\ ingestion.pc[q] = "threw" =>
         /\ q \notin ingestion.objects
         /\ q \notin ingestion.documents
         /\ q \notin ingestion.published

(***************************************************************************)
(* Properties of the order of the stages                                   *)
(***************************************************************************)
\* The stage of the pipeline an operation of the log belongs to.
StageOf(op) ==
  CASE op = "extractText" -> 1
    [] op = "extractSection" -> 3
    [] op = "detectSemanticConflicts" -> 4
    [] op \in {"updateExtraction", "deleteMessage", "updateStatus:failed"} -> 6
    [] OTHER -> 0

\* The data of a section once the fallback is over: what the model
\* extractor returned if the section was handed to it, what the pattern
\* extractor returned otherwise.
RECURSIVE ResolvedSection(_, _, _)
ResolvedSection(c, name, i) ==
  IF i > Len(SectionCalls) THEN OrUndefined(c.structuredResult[name].data)
  ELSE IF SectionCalls[i].name = name
       THEN OrUndefined(SectionCalls[i].result.data)
       ELSE ResolvedSection(c, name, i + 1)

\* C25: in a job the stages run in the order text, pattern extraction,
\* fallback, conflict detection, overall confidence, each one over before
\* the next begins, and conflict detection is given the data as the
\* fallback has resolved it.
C25_StagesInOrder ==
  \A s \in Slots :
    LET c == cycles[s]
        ops == Attempt(c.log)
    IN /\ \A i, j \in 1..Len(ops) : i < j => StageOf(ops[i]) <= StageOf(ops[j])
       /\ c.pc = "extractText" =>
            ~Computed(c) /\ calls = <<>> /\ ~Assembled(c)
       /\ c.pc = "extractSection" =>
            Computed(c) /\ ConflictsCalls = <<>> /\ ~Assembled(c)
       /\ c.pc = "detectConflicts" =>
            /\ Computed(c) /\ ConflictsCalls = <<>> /\ ~Assembled(c)
            /\ Len(SectionCalls) = Len(Flagged(c))
       /\ Assembled(c) =>
            /\ \A i, j \in 1..Len(calls) :
                 (IsConflictsCall(calls[i]) /\ IsSectionCall(calls[j])) => j < i
            /\ \A name \in SectionNameSet :
                 c.result.data[name] = ResolvedSection(c, name, 1)
            /\ \A i \in 1..Len(ConflictsCalls) :
                 ConflictsCalls[i].data = c.result.data
            /\ c.result.overallConfidence \in ExtractionConfidence

\* A job whose manpower section went through the fallback, which returned
\* data, and whose conflict call was then made on the data with them; the
\* result is assembled.
C25_Witness ==
  \E s \in Slots :
    /\ Assembled(cycles[s])
    /\ Len(calls) = 2
    /\ IsSectionCall(calls[1])
    /\ calls[1].name = "manpower"
    /\ calls[1].reply.kind = "value"
    /\ IsConflictsCall(calls[2])
    /\ calls[2].data.manpower = calls[1].reply.value

\* The place of a section in the order of runLlmFallback; the notes have
\* none.
FallbackRank(name) ==
  CASE name = "weather" -> 1 [] name = "manpower" -> 2
    [] name = "workAreas" -> 3 [] OTHER -> 0

\* C26: the fallback calls of a job are made in the order weather,
\* manpower, workAreas, one at a time: a call is issued only when all
\* earlier ones are back; no call is ever made for the notes, whatever the
\* pattern extractor returned for them.
C26_FallbackOneAtATimeInOrder ==
  /\ \A i \in 1..Len(SectionCalls) : FallbackRank(SectionCalls[i].name) > 0
  /\ \A i, j \in 1..Len(SectionCalls) :
       i < j => FallbackRank(SectionCalls[i].name) < FallbackRank(SectionCalls[j].name)
  /\ \A s \in Slots :
       LET c == cycles[s]
           issued == Count(Attempt(c.log), "extractSection")
       IN /\ c.pc = "extractSection" =>
               /\ issued = Len(SectionCalls) + 1
               /\ FallbackRank(PendingSection(c)) > 0
               /\ \A i \in 1..Len(SectionCalls) :
                    FallbackRank(SectionCalls[i].name) < FallbackRank(PendingSection(c))
          /\ (Computed(c) /\ c.pc # "extractSection") => issued = Len(SectionCalls)

\* Calls were made for the manpower section and then for the work areas
\* of a text that has notes, and the fallback is over.
C26_Witness ==
  /\ Len(SectionCalls) = 2
  /\ SectionCalls[1].name = "manpower"
  /\ SectionCalls[2].name = "workAreas"
  /\ \E s \in Slots :
       /\ FallbackDone(cycles[s])
       /\ Computed(cycles[s])
       /\ cycles[s].structuredResult.notes.rawText # Undefined
       /\ cycles[s].structuredResult.notes.confidence = MEDIUM

(***************************************************************************)
(* Properties of retries and of dropped ticks                              *)
(***************************************************************************)
\* The calls of processMessage a cycle has made.
Processed(c) == Count(c.log, "processMessage")

\* processMessage is called for a message only out of the receive that
\* returned it, the message being visible on the queue then, or after the
\* previous message of the same batch.
StartsOnlyFromQueue ==
  \A s \in Slots :
    (Processed(cycles'[s]) > Processed(cycles[s])) =>
      \/ /\ cycles[s].pc = "receive"
         /\ \A i \in 1..Len(cycles'[s].messages) :
              msgState[cycles'[s].messages[i]] = "visible"
      \/ /\ Handling(cycles[s])
         /\ Handling(cycles'[s]) =>
              Head(cycles'[s].messages) # Head(cycles[s].messages)

\* C27: in one attempt the text extraction, the semantic conflict call, the
\* write of the result and the delete are issued at most once and each
\* flagged section's fallback call once; a job is taken up again only when
\* a later receive returns its message, redelivered by the queue.
C27_NoApplicationRetry ==
  /\ [](\A s \in Slots :
          LET c == cycles[s]
              ops == Attempt(c.log)
          IN /\ Count(ops, "extractText") <= 1
             /\ Count(ops, "detectSemanticConflicts") <= 1
             /\ Count(ops, "updateExtraction") <= 1
             /\ Count(ops, "deleteMessage") <= 1
             /\ Count(ops, "updateStatus:failed") <= 1
             /\ Count(ops, "extractSection") <= 3
             /\ (c.pc = "extractSection" \/ FallbackDone(c)) =>
                  /\ Count(ops, "extractSection") = Len(c.llmFallbackSections)
                  /\ \A i, j \in 1..Len(c.llmFallbackSections) :
                       i # j => c.llmFallbackSections[i] # c.llmFallbackSections[j])
  /\ [][StartsOnlyFromQueue]_vars

\* The job of r1 has failed in an earlier poll; its message was delivered
\* again and the second poll is processing it.
C27_Witness ==
  /\ polls = 2
  /\ status["r1"] = FAILED
  /\ \A m \in MsgIds \ {"m1"} : msgState[m] = "none"
  /\ \E s \in Slots :
       /\ cycles[s].pc = "updateProcessing"
       /\ Current(cycles[s]).id = "m1"

\* The cycle of slot s sends its ReceiveMessageCommand in this step.
StartsReceive(s) == cycles'[s].pc = "receive" /\ cycles[s].pc # "receive"

\* C28: a receive is sent only in the step of a tick that finds the consumer
\* idle, one receive for one such tick; a tick that finds it polling sends
\* none, and the end of a cycle sends none either, however many ticks were
\* dropped meanwhile.  So the receives never outnumber the ticks that
\* arrived while the consumer was idle.
C28_DroppedTicksNotBuffered ==
  /\ [][/\ \A s \in Slots :
             StartsReceive(s) =>
               /\ ~isProcessing
               /\ ticks' = ticks + 1
               /\ polls' = polls + 1
               /\ \A t \in Slots \ {s} : ~StartsReceive(t)
        /\ polls' # polls => \E s \in Slots : StartsReceive(s)
        /\ (ticks' # ticks /\ isProcessing) => polls' = polls
        /\ (isProcessing /\ ~isProcessing') =>
             /\ polls' = polls
             /\ \A s \in Slots : ~Active(s)']_vars
  /\ [](polls <= ticks)

\* A tick was dropped during the only poll, the poll is over, and the
\* consumer is idle: the dropped tick has started nothing.
C28_Witness ==
  /\ ticks = 2
  /\ polls = 1
  /\ ~isProcessing
  /\ \A s \in Slots : ~Active(s)
  /\ lastPoll = "returned"

\* C29: when the parsing of one section throws, that section's result is
\* data null, LOW, needsLlmFallback true, with the text of the section as
\* raw text, and the other three sections have the results they have
\* without the exception.
C29_SectionFailureIsolated ==
  \A name \in faults :
    LET sectionText == extractSectionText(pdfText, name)
    IN Truthy(sectionText) =>
         /\ structuredResult[name].data = Null
         /\ structuredResult[name].confidence = LOW
         /\ structuredResult[name].needsLlmFallback = TRUE
         /\ structuredResult[name].rawText = sectionText
         /\ \A other \in SectionNameSet \ {name} :
              structuredResult[other] = extract(pdfText, {})[other]

\* The parsing of the manpower section threw on a text whose weather
\* section was read in full: the manpower result is degraded, with the two
\* crew lines as raw text, and the weather result is HIGH.
C29_Witness ==
  /\ faults = {"manpower"}
  /\ pdfText = << "Weather:", "High: 75F / Low: 55F", "Conditions: Partly Cloudy",
                  "Manpower:", "ABC Corp: 5 workers", "XYZ Inc: 3 workers" >>
  /\ structuredResult.manpower.needsLlmFallback
  /\ structuredResult.manpower.rawText =
       Str(<< "ABC Corp: 5 workers", "XYZ Inc: 3 workers" >>)
  /\ structuredResult.weather.confidence = HIGH

\* The lines of the vocabulary that give a temperature, and those that
\* give the conditions.
TemperatureLines == {"High: 75F / Low: 55F", "65-75F"}
ConditionsLines == {"Conditions: Partly Cloudy"}
Mentions(section, lines) ==
  \E i \in 1..Len(section.lines) : section.lines[i] \in lines

\* C30: for a weather section that is present and parsed without exception,
\* the confidence is HIGH iff a temperature and the conditions were found,
\* MEDIUM iff one of the two was, LOW with needsLlmFallback iff neither;
\* "High: 75F / Low: 55F" with "Conditions: Partly Cloudy" gives HIGH, 75
\* and 55, and no fallback call.
C30_WeatherConfidence ==
  LET section == extractSectionText(pdfText, "weather")
      weather == structuredResult.weather
  IN /\ (faults = {} /\ Truthy(section)) =>
          LET hasTemperature == Mentions(section, TemperatureLines)
              hasConditions == Mentions(section, ConditionsLines)
          IN /\ weather.confidence = HIGH <=> (hasTemperature /\ hasConditions)
             /\ weather.confidence = MEDIUM <=> (hasTemperature # hasConditions)
             /\ weather.confidence = LOW <=> (~hasTemperature /\ ~hasConditions)
             /\ weather.needsLlmFallback <=> weather.confidence = LOW
     /\ (faults = {}
           /\ pdfText = << "Weather:", "High: 75F / Low: 55F",
                           "Conditions: Partly Cloudy" >>) =>
          /\ weather.confidence = HIGH
          /\ weather.data.temperatureHigh = 75
          /\ weather.data.temperatureLow = 55
          /\ ~weather.needsLlmFallback
          /\ llmResult = Undefined

\* extract has read the weather section with the high and low temperatures
\* and the conditions.
C30_Witness ==
  /\ faults = {}
  /\ pdfText = << "Weather:", "High: 75F / Low: 55F", "Conditions: Partly Cloudy" >>
  /\ structuredResult.weather.confidence = HIGH
  /\ structuredResult.weather.data.conditions = "Partly Cloudy"

\* C31: the processing message of a request is on the queue only when the
\* report of the request has been saved as PENDING, and the send is issued
\* only after the save has returned: no step puts a message on the queue
\* for a report that is not saved.
C31_PublishedOnlyAfterSaved ==
  /\ [](\A q \in Requests :
          /\ q \in ingestion.published => q \in ingestion.documents
          /\ ingestion.pc[q] = "publish" => q \in ingestion.documents)
  /\ [][\A q \in Requests :
          (q \in ingestion'.published /\ q \notin ingestion.published) =>
            q \in ingestion.documents]_vars

\* An upload has returned: its message is on the queue and its report is
\* saved.
C31_Witness ==
  \E q \in Requests :
    /\ ingestion.pc[q] = "returned"
    /\ q \in ingestion.published
    /\ q \in ingestion.documents

(***************************************************************************)
(* Progress of the consumer                                                *)
(***************************************************************************)
\* A cycle that is processing a message ends only out of the delete or out
\* of the write of FAILED, or goes on.
EndsOnlyAfterJob ==
  \A s \in Slots :
    (Handling(cycles[s]) /\ ~Active(s)') =>
      cycles[s].pc \in {"deleteMessage", "updateFailed"}

\* C32: when every external call returns or fails, a poll cycle that took
\* the flag releases it, and a well-formed message whose job was begun gets
\* to the write of COMPLETED or to the write of FAILED; nothing ends a job
\* before that.
C32_CyclesAndJobsEnd ==
  /\ isProcessing ~> ~isProcessing
  /\ \A s \in Slots :
       (cycles[s].pc = "updateProcessing" /\ WellFormed(Current(cycles[s])))
         ~> (cycles[s].pc \in {"updateExtraction", "updateFailed"})
  /\ [][EndsOnlyAfterJob]_vars

\* The job of the well-formed message m1 has begun: the write of PROCESSING
\* is issued.
C32_Witness ==
  \E s \in Slots :
    /\ isProcessing
    /\ cycles[s].pc = "updateProcessing"
    /\ Current(cycles[s]).id = "m1"

\* C33: an attempt that has written its data with COMPLETED (the delete is
\* issued only after that write) does not set the job to FAILED afterwards,
\* whatever the delete does.
C33_CompletedStaysCompleted ==
  [][\A s \in Slots :
       LET c == cycles[s] IN
       (/\ Handling(c)
        /\ WellFormed(Current(c))
        /\ Issued(Attempt(c.log), "deleteMessage")) =>
         (status'[Current(c).reportId] = FAILED =>
            status[Current(c).reportId] = FAILED)]_vars

\* The invocation in slot s, which is processing a well-formed message,
\* ends in this step.
JobCycleEnds(s) ==
  /\ Handling(cycles[s])
  /\ WellFormed(Current(cycles[s]))
  /\ ~Active(s)'

\* The write of FAILED in the catch block of processMessage throws in this
\* step.
FailedWriteThrows(s) == cycles[s].pc = "updateFailed" /\ lastPoll' = "caught"

C35_NotLeftProcessing ==
  [][\A s \in Slots :
       LET c == cycles[s] IN
       (JobCycleEnds(s) /\ Issued(Attempt(c.log), "extractText")) =>
         status'[Current(c).reportId] # PROCESSING]_vars

\* A message the consumer cannot read: no body or receipt handle, or a body
\* that is not JSON.
Unreadable(m) == Message(m).body \in {"none", "notJson"}

\* The attempt went through the try block of processMessage up to the
\* delete: the write of PROCESSING, the pipeline and the write of the result
\* have returned, and the catch block has not run.
SucceededUpToDelete(ops) ==
  /\ Pos(ops, "updateStatus:processing") = 1
  /\ Pos(ops, "extractText") = 2
  /\ Pos(ops, "extractText") < Pos(ops, "updateExtraction")
  /\ Pos(ops, "deleteMessage") = Len(ops)
  /\ Count(ops, "deleteMessage") = 1
  /\ ~Issued(ops, "updateStatus:failed")

\* C36: a delete is issued, and a message leaves the queue, only for the
\* message of an attempt that went through without an error; a message
\* without body or receipt handle, or with a body that does not parse, is
\* never deleted: once received it stays in flight and can be delivered
\* again.
C36_DeleteOnlyAfterSuccess ==
  /\ [](\A m \in MsgIds : Unreadable(m) => msgState[m] # "deleted")
  /\ [](\A s \in Slots :
          cycles[s].pc = "deleteMessage" =>
            /\ ~Unreadable(Current(cycles[s]).id)
            /\ SucceededUpToDelete(Attempt(cycles[s].log)))
  /\ [][\A m \in MsgIds :
          (msgState[m] # "deleted" /\ msgState'[m] = "deleted") =>
            \E s \in Slots :
              /\ cycles[s].pc = "deleteMessage"
              /\ Current(cycles[s]).id = m]_vars
  /\ [][\A m \in MsgIds :
          (Unreadable(m) /\ msgState[m] = "visible" /\ msgState'[m] # "visible") =>
            /\ msgState'[m] = "inflight"
            /\ UNCHANGED <<status, stored>>]_vars

\* The first poll cycle received the unparseable message m3 and is over: m3
\* is in flight, to be delivered again, and no job was touched.
C36_Witness ==
  /\ ~isProcessing
  /\ polls = 1
  /\ lastPoll = "returned"
  /\ msgState["m3"] = "inflight"
  /\ \A m \in MsgIds \ {"m3"} : msgState[m] = "none"
  /\ \A r \in Reports : status[r] = PENDING

\* C37: a result of extractSection without data (null or undefined) has
\* confidence LOW; MEDIUM comes only with data.
C37_NoDataGivesLow ==
  \A i \in 1..Len(calls) :
    (/\ calls[i].fn = "extractSection"
     /\ calls[i].result.data.kind \in {"null", "undefined"}) =>
      calls[i].result.confidence = LOW

\* The call of the model extractor for the section, if one was made.
FallbackCalls(name) ==
  {i \in 1..Len(SectionCalls) : SectionCalls[i].name = name}

\* C38: in the assembled result, and in what is stored from it, a section
\* that was handed to the fallback has the data the fallback returned, or is
\* left out when the fallback returned none, whatever data the pattern
\* extractor had for it; its name is in llmFallbackSections either way.  A
\* section that was not handed to the fallback has the data of the pattern
\* extractor and is not in the list.
C38_FallbackDataReplacesPatternData ==
  \A s \in Slots :
    LET c == cycles[s] IN
    Assembled(c) =>
      /\ \A name \in SectionNameSet :
           IF Issued(Flagged(c), name)
           THEN /\ Issued(c.result.llmFallbackSections, name)
                /\ Cardinality(FallbackCalls(name)) = 1
                /\ \A i \in FallbackCalls(name) :
                     /\ c.result.data[name] = OrUndefined(SectionCalls[i].result.data)
                     /\ SectionCalls[i].reply \in FailedReplies =>
                          c.result.data[name] = Undefined
           ELSE /\ ~Issued(c.result.llmFallbackSections, name)
                /\ FallbackCalls(name) = {}
                /\ c.result.data[name] = OrUndefined(c.structuredResult[name].data)
      /\ c.pc = "deleteMessage" => stored[Current(c).reportId] = c.result.data

\* The result of the job is stored.  The manpower section, for which the
\* pattern extractor had zero-defaulted data, went to the fallback, which
\* failed: the section is left out and is named in llmFallbackSections;
\* the notes carry the data of the pattern extractor.
C38_Witness ==
  \E s \in Slots :
    LET c == cycles[s] IN
    /\ c.pc = "deleteMessage"
    /\ Issued(Flagged(c), "manpower")
    /\ Truthy(c.structuredResult.manpower.data)
    /\ \E i \in FallbackCalls("manpower") : SectionCalls[i].reply \in FailedReplies
    /\ stored["r1"].manpower = Undefined
    /\ Issued(c.result.llmFallbackSections, "manpower")
    /\ ~Issued(Flagged(c), "notes")
    /\ Truthy(stored["r1"].notes)
    /\ stored["r1"].notes = c.structuredResult.notes.data

\* The manpower section of the text lists crews of 5 and 3 workers and then
\* the total of 8 workers.
CrewsThenTotal ==
  LET section == extractSectionText(pdfText, "manpower") IN
  /\ Truthy(section)
  /\ section.lines = << "ABC Corp: 5 workers", "XYZ Inc: 3 workers",
                        "Total: 8 workers" >>

\* C39: for a manpower section with crew lines followed by a "Total: T
\* workers" line, the crews of the result are the listed crews only, and
\* with T the sum of their counts the result of the job has no
\* total-mismatch warning.
C39_TotalLineIsNoCrew ==
  \A s \in Slots :
    LET c == cycles[s] IN
    (CrewsThenTotal /\ Computed(c)) =>
      /\ Len(c.structuredResult.manpower.data.crews) = 2
      /\ \A i \in 1..Len(c.structuredResult.manpower.data.crews) :
           c.structuredResult.manpower.data.crews[i].subcontractor # <<"Total">>
      /\ Assembled(c) => TotalMismatches(c.result.warnings) = <<>>

\* LOW < MEDIUM < HIGH
Rank(confidence) ==
  CASE confidence = LOW -> 1 [] confidence = MEDIUM -> 2 [] confidence = HIGH -> 3

\* The ways to rearrange the four sections.
SectionPermutations ==
  {p \in [SectionNameSet -> SectionNameSet] :
     \A a, b \in SectionNameSet : p[a] = p[b] => a = b}

\* The structured result with the confidences of its sections rearranged,
\* and with the confidence of one section replaced.
Permuted(result, p) ==
  [name \in SectionNameSet |->
     [result[name] EXCEPT !.confidence = result[p[name]].confidence]]
Raised(result, name, confidence) ==
  [result EXCEPT ![name].confidence = confidence]

\* C40: the overall confidence is the same however the four section
\* confidences are rearranged, and it does not get lower when the
\* confidence of one section is raised.
C40_OverallSymmetricMonotone ==
  \A i \in 1..Len(calls) :
    calls[i].fn = "calculateOverallConfidence" =>
      LET result == calls[i].data IN
      /\ \A p \in SectionPermutations :
           calculateOverallConfidence(Permuted(result, p)) = calls[i].result
      /\ \A name \in SectionNameSet, higher \in ExtractionConfidence :
           Rank(higher) >= Rank(result[name].confidence) =>
             Rank(calculateOverallConfidence(Raised(result, name, higher)))
               >= Rank(calls[i].result)

\* The call on LOW, HIGH, LOW, HIGH has returned LOW; with the weather
\* raised to MEDIUM the overall confidence is MEDIUM, and with the
\* confidences in the order HIGH, HIGH, LOW, LOW it is LOW again.
C40_Witness ==
  /\ Len(calls) = 1
  /\ calls[1].fn = "calculateOverallConfidence"
  /\ Confidences(calls[1].data) = <<LOW, HIGH, LOW, HIGH>>
  /\ calls[1].result = LOW
  /\ calculateOverallConfidence(Raised(calls[1].data, "weather", MEDIUM)) = MEDIUM
  /\ \E p \in SectionPermutations :
       /\ Confidences(Permuted(calls[1].data, p)) = <<HIGH, HIGH, LOW, LOW>>
       /\ calculateOverallConfidence(Permuted(calls[1].data, p)) = LOW

=============================================================================
